---- MODULE Spec2Model ----
(***************************************************************************)
(* Agent-Bridge coordination core: the lock registry, the message store,   *)
(* the contract store and the SSE event broadcaster of src/src/index.ts    *)
(* and src/src/contracts.ts, as one state machine.  Every request handler  *)
(* is one action (Node runs a handler to completion).  Optional values are *)
(* encoded as sequences: <<>> is undefined, <<v>> is the value v.          *)
(***************************************************************************)
EXTENDS Integers, Sequences, FiniteSets, TLC

VARIABLES
  clock,                \* Date.now(), in milliseconds
  locks,                \* Map<string, ResourceLock>, in insertion order
  messages,             \* Message[]: the message objects, in publish order
  messagesById,         \* Map<id, Message>: id -> position in messages
  messagesByRecipient,  \* Map<recipient, Message[]>: recipient -> positions
  contracts,            \* Map<string, TaskContract>, in insertion order
  contractIdSeq,        \* number of ids drawn by generateId of contracts.ts
  persistPending,       \* contracts.ts persistPending
  persistTimer,         \* contracts.ts persistTimer, the timer the handle names:
                        \* "none", "armed" (debounce), "retry" or "fired"
  strayTimers,          \* armed timers whose handle was overwritten
  writes,               \* snapshots of the writeFile calls in flight
  disk,                 \* contracts.json: absent, or the snapshot written
  writeFailed,          \* whether a writeFile call has rejected so far
  eventHistory,         \* BridgeEvent[]: the circular replay buffer
  eventHistoryIndex,    \* next slot to overwrite once the buffer is full
  eventClients,         \* Set<Response>: the subscribed clients
  streams,              \* per client: connection state, what was written to it, and
                        \* how many events had been published when it connected
  eventLog,             \* every event pushEvent has built, in publish order
  clearedAt,            \* how many events had been published when the replay
                        \* buffer was last emptied
  orchestrator,         \* the NodeOrchestrator of scripts/orchestrator.mjs: its
                        \* fields, where processTask stands, whether a handoff
                        \* to 'complete' was seen, and the value it returned
  resp,                 \* the response of the last request handled
  granted,              \* per resource, the expiresAt last granted to a caller
  ackedEver,            \* the ids of published messages an ack_message has named
  ackSkipped,           \* how many ids the last ack_message skipped as unknown and
                        \* how many as already acknowledged
  recorder              \* the SessionRecorder of scripts/session-recorder.mjs: its
                        \* fields, its writeFile calls in flight, its session file
                        \* and the state of the finalize() promise

vars == <<clock, locks, messages, messagesById, messagesByRecipient,
          contracts, contractIdSeq, persistPending, persistTimer,
          eventHistory, eventHistoryIndex, eventClients, streams, eventLog,
          resp, granted, ackedEver, ackSkipped, strayTimers, writes, disk,
          writeFailed, recorder, clearedAt, orchestrator>>

lockVars == <<locks, granted>>
messageVars == <<messages, messagesById, messagesByRecipient, ackedEver, ackSkipped>>
contractVars == <<contracts, contractIdSeq, persistPending, persistTimer>>
eventVars == <<eventHistory, eventHistoryIndex, streams, eventLog, clearedAt>>
diskVars == <<strayTimers, writes, disk, writeFailed, recorder, orchestrator>>

(***************************************************************************)
(* Bounds of the model and constants of the program.                       *)
(***************************************************************************)
EVENT_HISTORY_LIMIT == 100
MsPerSecond == 1000
MaxClockSeconds == 3
MaxEvents == 2
MaxLockEvents == 3
MaxMessages == 3
MaxAckIds == 2
MaxAckMessages == 2
MaxStartupMutations == 2
MaxTurns == 2
MaxStartupContracts == 1
MaxContracts == 1
MaxLinks == 2
MaxContractEvents == 4
MaxBurstEvents == 102
MaxReplayEvents == 203
MaxLifecycleEvents == 3
BurstSetup == 1
MaxClients == 3
MaxMutations == 3
MaxSinkEvents == 3

None == <<>>
Some(v) == <<v>>
\* JavaScript truthiness of an optional string
Truthy(opt) == opt # None /\ opt[1] # ""

Recipients == {"codex", "cursor"}
Resources == {"r1", "r2"}
Holders == {"a", "b"}
TTLs == {1, 2}
Clients == 1..MaxClients

(***************************************************************************)
(* Event broadcaster.                                                      *)
(***************************************************************************)
EventState ==
  [history |-> eventHistory, index |-> eventHistoryIndex,
   log |-> eventLog, out |-> streams, thrown |-> FALSE]

\* the registered clients whose write() throws, and the clients a pushEvent
\* reaches: the Set is iterated in insertion order up to the first throw
throwingClients(out) == {c \in eventClients : out[c].state = "broken"}

reachedClients(out) ==
  {c \in eventClients :
     \A t \in throwingClients(out) : out[c].joined < out[t].joined}

\* a ring whose overwrite position never advances
pushEvent_FixedSlot(ev, item) ==
  LET event == [id |-> "e" \o ToString(Len(ev.log) + 1), type |-> item.type,
                timestamp |-> item.at, data |-> item.data]
      room == Len(ev.history) < EVENT_HISTORY_LIMIT
  IN  [history |-> IF room THEN Append(ev.history, event)
                   ELSE [ev.history EXCEPT ![ev.index + 1] = event],
       index |-> ev.index,
       log |-> Append(ev.log, event),
       out |-> [c \in DOMAIN ev.out |->
                  IF c \in reachedClients(ev.out)
                  THEN [ev.out[c] EXCEPT !.out = Append(@, event)]
                  ELSE ev.out[c]],
       thrown |-> throwingClients(ev.out) # {}]

\* pushEvent: build the event, store it in the ring, write it to the clients
pushEvent(ev, item) ==
  LET event == [id |-> "e" \o ToString(Len(ev.log) + 1), type |-> item.type,
                timestamp |-> item.at, data |-> item.data]
      room == Len(ev.history) < EVENT_HISTORY_LIMIT
  IN  [history |-> IF room THEN Append(ev.history, event)
                   ELSE [ev.history EXCEPT ![ev.index + 1] = event],
       index |-> IF room THEN ev.index
                 ELSE (ev.index + 1) % EVENT_HISTORY_LIMIT,
       log |-> Append(ev.log, event),
       out |-> [c \in DOMAIN ev.out |->
                  IF c \in reachedClients(ev.out)
                  THEN [ev.out[c] EXCEPT !.out = Append(@, event)]
                  ELSE ev.out[c]],
       thrown |-> throwingClients(ev.out) # {}]

\* the pushEvent calls of one handler; a throw ends the handler's try block
RECURSIVE pushEvents(_, _)
pushEvents(ev, items) ==
  IF items = <<>> \/ ev.thrown THEN ev
  ELSE pushEvents(pushEvent(ev, Head(items)), Tail(items))

\* whether one of the handler's pushEvent calls throws
emitThrows(items) == pushEvents(EventState, items).thrown

\* the pushEvent calls of a handler up to the last one or the first throw,
\* applied to the broadcaster's state
EmitUntilThrow(items) ==
  LET ev == pushEvents(EventState, items)
  IN  /\ eventHistory' = ev.history
      /\ eventHistoryIndex' = ev.index
      /\ eventLog' = ev.log
      /\ streams' = ev.out
      /\ clearedAt' = clearedAt

\* the events of a handler none of whose writes throws
Emit(items) == ~emitThrows(items) /\ EmitUntilThrow(items)

\* sendEventHistory: the sequence of events written to a new subscriber
sendEventHistory(history, index) ==
  IF Len(history) < EVENT_HISTORY_LIMIT THEN history
  ELSE LET oldestIndex == (index + 1) % EVENT_HISTORY_LIMIT
       IN  [i \in 1..EVENT_HISTORY_LIMIT |->
              history[((oldestIndex + (i - 1)) % EVENT_HISTORY_LIMIT) + 1]]

\* GET /events: replay, then register the client
Subscribe(clients) ==
  \E c \in clients :
    /\ streams[c].state = "idle"
    /\ streams' = [streams EXCEPT
                     ![c] = [state |-> "open",
                             joined |-> Cardinality({d \in Clients :
                                                       streams[d].state # "idle"}) + 1,
                             connectedAt |-> Len(eventLog),
                             out |-> sendEventHistory(eventHistory, eventHistoryIndex)]]
    /\ eventClients' = eventClients \cup {c}
    /\ UNCHANGED <<diskVars, clock, lockVars, messageVars, contractVars, eventHistory,
                   eventHistoryIndex, eventLog, clearedAt, resp>>

\* the connection of a registered client breaks so that write() throws
BreakStream ==
  \E c \in eventClients :
    /\ streams[c].state = "open"
    /\ streams' = [streams EXCEPT ![c].state = "broken"]
    /\ UNCHANGED <<diskVars, clock, lockVars, messageVars, contractVars, eventHistory,
                   eventHistoryIndex, eventLog, clearedAt, eventClients, resp>>

\* req.on('close'): deregister the client
CloseStream ==
  \E c \in eventClients :
    /\ eventClients' = eventClients \ {c}
    /\ streams' = [streams EXCEPT ![c].state = "closed"]
    /\ UNCHANGED <<diskVars, clock, lockVars, messageVars, contractVars, eventHistory,
                   eventHistoryIndex, eventLog, clearedAt, resp>>

\* clearEventHistory: eventHistory.length = 0; eventHistoryIndex = 0
clearEventHistory(ev) == [ev EXCEPT !.history = <<>>, !.index = 0]

\* clearEventHistory() (exported; the test suites call it before each test)
ClearEventHistory ==
  LET ev == clearEventHistory(EventState)
  IN  /\ eventHistory' = ev.history
      /\ eventHistoryIndex' = ev.index
      /\ clearedAt' = Len(eventLog)
      /\ UNCHANGED <<diskVars, clock, lockVars, messageVars, contractVars, eventLog,
                     streams, eventClients, resp>>

(***************************************************************************)
(* Lock registry.                                                          *)
(***************************************************************************)
getLockExpiryDate(lock) == lock.createdAt + (lock.ttl * MsPerSecond)

\* a lock that is never seen as expired
isLockExpired_Never(lock, now) == FALSE

\* a lock that expires already at the instant of its expiresAt
isLockExpired_AtDeadline(lock, now) ==
  now >= lock.createdAt + (lock.ttl * MsPerSecond)

isLockExpired(lock, now) == now > lock.createdAt + (lock.ttl * MsPerSecond)

\* a sweep that stops after the first expired lock it finds
cleanExpiredLocks_FirstOnly(ls, now) ==
  LET expired == SelectSeq(ls, LAMBDA l : isLockExpired(l, now))
      first == IF expired = <<>> THEN <<>> ELSE <<Head(expired)>>
  IN  [locks |-> SelectSeq(ls, LAMBDA l : first = <<>> \/ l # first[1]),
       events |-> [i \in 1..Len(first) |->
                     [type |-> "lock.expired", at |-> now,
                      data |-> [resource |-> first[i].resource,
                                holder |-> first[i].holder]]]]

\* a sweep that removes expired locks without announcing them
cleanExpiredLocks_Silent(ls, now) ==
  [locks |-> SelectSeq(ls, LAMBDA l : ~isLockExpired(l, now)), events |-> <<>>]

\* the locks cleanExpiredLocks leaves, and the events it pushes
cleanExpiredLocks(ls, now) ==
  LET expired == SelectSeq(ls, LAMBDA l : isLockExpired(l, now))
  IN  [locks |-> SelectSeq(ls, LAMBDA l : ~isLockExpired(l, now)),
       events |-> [i \in 1..Len(expired) |->
                     [type |-> "lock.expired", at |-> now,
                      data |-> [resource |-> expired[i].resource,
                                holder |-> expired[i].holder]]]]

hasLock(ls, resource) == \E i \in 1..Len(ls) : ls[i].resource = resource

getLock(ls, resource) ==
  ls[CHOOSE i \in 1..Len(ls) : ls[i].resource = resource]

\* a delete that leaves the lock in the registry
deleteLock_Keeping(ls, resource) == ls

deleteLock(ls, resource) == SelectSeq(ls, LAMBDA l : l.resource # resource)

\* a later Date.now() of the same handler: the clock may have moved on
LaterReads(now) ==
  {now} \cup {t \in {now + MsPerSecond} : t <= MaxClockSeconds * MsPerSecond}

Tick ==
  /\ clock + MsPerSecond <= MaxClockSeconds * MsPerSecond
  /\ clock' = clock + MsPerSecond
  /\ UNCHANGED <<diskVars, lockVars, messageVars, contractVars, eventVars, eventClients, resp>>

\* res.status(s).json(body)
Respond(op, status, body) == resp' = [op |-> op, status |-> status, body |-> body]

\* a 400 answered only after the expiry sweep has already run
handleRouteError_AfterSweep(op) ==
  LET swept == cleanExpiredLocks(locks, clock)
  IN  /\ Respond(op, 400, [success |-> FALSE, error |-> "Invalid request data"])
      /\ locks' = swept.locks
      /\ Emit(swept.events)
      /\ UNCHANGED <<diskVars, clock, granted, messageVars, contractVars, eventClients>>

\* handleRouteError on a ZodError: 400 and nothing else
handleRouteError(op) ==
  /\ Respond(op, 400, [success |-> FALSE, error |-> "Invalid request data"])
  /\ UNCHANGED <<diskVars, clock, lockVars, messageVars, contractVars, eventVars, eventClients>>

lockResourceSchema(body) ==
  body.resource # "" /\ body.holder # "" /\ body.ttl > 0

renewLockSchema(body) == body.resource # "" /\ body.ttl > 0

LockBodies ==
  [resource : Resources, holder : Holders, ttl : TTLs]
    \cup {[resource |-> "", holder |-> "", ttl |-> -1],
          [resource |-> "", holder |-> "a", ttl |-> 1],
          [resource |-> "r1", holder |-> "a", ttl |-> 0]}

RenewBodies ==
  [resource : Resources, ttl : TTLs]
    \cup {[resource |-> "", ttl |-> 1], [resource |-> "r1", ttl |-> 0]}

\* a descriptor that names the resource as the holder
lockDescriptor_HolderLost(lock) ==
  [resource |-> lock.resource, holder |-> lock.resource, ttl |-> lock.ttl,
   expiresAt |-> getLockExpiryDate(lock)]

lockDescriptor(lock) ==
  [resource |-> lock.resource, holder |-> lock.holder, ttl |-> lock.ttl,
   expiresAt |-> getLockExpiryDate(lock)]

\* POST /lock_resource
LockResource(bodies) ==
  \E body \in bodies :
    IF ~lockResourceSchema(body) THEN handleRouteError("lock_resource")
    ELSE
      LET swept == cleanExpiredLocks(locks, clock) IN
      IF hasLock(swept.locks, body.resource)
      THEN /\ locks' = swept.locks
           /\ Emit(swept.events)
           /\ Respond("lock_resource", 409,
                      [success |-> FALSE, error |-> "Resource is already locked"])
           /\ UNCHANGED <<diskVars, clock, granted, messageVars, contractVars, eventClients>>
      ELSE \E now2 \in LaterReads(clock) :
             LET lock == [resource |-> body.resource, holder |-> body.holder,
                          ttl |-> body.ttl, createdAt |-> now2]
             IN  /\ locks' = Append(swept.locks, lock)
                 /\ Emit(Append(swept.events,
                          [type |-> "lock.created", at |-> now2,
                           data |-> lockDescriptor(lock)]))
                 /\ Respond("lock_resource", 201,
                            [success |-> TRUE, lock |-> lockDescriptor(lock)])
                 /\ clock' = now2
                 /\ granted' = [granted EXCEPT
                                  ![body.resource] = Some(getLockExpiryDate(lock))]
                 /\ UNCHANGED <<diskVars, messageVars, contractVars, eventClients>>

\* a renew that changes the ttl but keeps the old start of the lock
renewLock_KeepingStart(existingLock, ttl, now) == [existingLock EXCEPT !.ttl = ttl]

\* existingLock.ttl = ttl; existingLock.createdAt = new Date()
renewLock(existingLock, ttl, now) ==
  [existingLock EXCEPT !.ttl = ttl, !.createdAt = now]

\* POST /renew_lock
RenewLock(bodies) ==
  \E body \in bodies :
    IF ~renewLockSchema(body) THEN handleRouteError("renew_lock")
    ELSE
      LET swept == cleanExpiredLocks(locks, clock) IN
      IF ~hasLock(swept.locks, body.resource)
      THEN /\ locks' = swept.locks
           /\ Emit(swept.events)
           /\ Respond("renew_lock", 404,
                      [success |-> FALSE, error |-> "Lock not found"])
           /\ UNCHANGED <<diskVars, clock, granted, messageVars, contractVars, eventClients>>
      ELSE \E now2 \in LaterReads(clock) :
             LET existingLock == getLock(swept.locks, body.resource) IN
             IF isLockExpired(existingLock, now2)
             THEN /\ locks' = deleteLock(swept.locks, body.resource)
                  /\ Emit(Append(swept.events,
                           [type |-> "lock.expired", at |-> now2,
                            data |-> [resource |-> body.resource,
                                      holder |-> existingLock.holder]]))
                  /\ Respond("renew_lock", 410,
                             [success |-> FALSE, error |-> "Lock has expired"])
                  /\ clock' = now2
                  /\ UNCHANGED <<diskVars, granted, messageVars, contractVars, eventClients>>
             ELSE \E now3 \in LaterReads(now2) :
                    LET renewed == renewLock(existingLock, body.ttl, now3)
                    IN  /\ locks' = [i \in 1..Len(swept.locks) |->
                                       IF swept.locks[i].resource = body.resource
                                       THEN renewed ELSE swept.locks[i]]
                        /\ Emit(Append(swept.events,
                                 [type |-> "lock.renewed", at |-> now3,
                                  data |-> lockDescriptor(renewed)]))
                        /\ Respond("renew_lock", 200,
                                   [success |-> TRUE, lock |-> lockDescriptor(renewed)])
                        /\ clock' = now3
                        /\ granted' = [granted EXCEPT
                                         ![body.resource] = Some(getLockExpiryDate(renewed))]
                        /\ UNCHANGED <<diskVars, messageVars, contractVars, eventClients>>

\* DELETE /unlock_resource/:resource (the route matches no empty resource)
UnlockResource(resources) ==
  \E resource \in resources :
    LET swept == cleanExpiredLocks(locks, clock) IN
    IF ~hasLock(swept.locks, resource)
    THEN /\ locks' = swept.locks
         /\ Emit(swept.events)
         /\ Respond("unlock_resource", 404,
                    [success |-> FALSE, error |-> "Lock not found"])
         /\ UNCHANGED <<diskVars, clock, granted, messageVars, contractVars, eventClients>>
    ELSE LET existingLock == getLock(swept.locks, resource) IN
         /\ locks' = deleteLock(swept.locks, resource)
         /\ Emit(Append(swept.events,
                  [type |-> "lock.released", at |-> clock,
                   data |-> [resource |-> resource,
                             holder |-> existingLock.holder]]))
         /\ Respond("unlock_resource", 200, [success |-> TRUE])
         /\ granted' = [granted EXCEPT ![resource] = None]
         /\ UNCHANGED <<diskVars, clock, messageVars, contractVars, eventClients>>

(***************************************************************************)
(* Contract store (src/src/contracts.ts).                                  *)
(***************************************************************************)
ContractStatuses ==
  {"proposed", "accepted", "in_progress", "completed", "failed", "cancelled"}

ContractPriorities == {"low", "medium", "high", "critical"}

Pad2(n) == IF n < 10 THEN "0" \o ToString(n) ELSE ToString(n)

Pad3(n) == IF n < 10 THEN "00" \o ToString(n)
           ELSE IF n < 100 THEN "0" \o ToString(n) ELSE ToString(n)

\* Date.prototype.toISOString, for dates within the first minute of the epoch
toISOString(ms) ==
  "1970-01-01T00:00:" \o Pad2(ms \div MsPerSecond) \o "."
    \o Pad3(ms % MsPerSecond) \o "Z"

\* the ISO-8601 datetime strings that denote the date ms
IsoForms(ms) ==
  {toISOString(ms)} \cup
  (IF ms % MsPerSecond = 0
   THEN {"1970-01-01T00:00:" \o Pad2(ms \div MsPerSecond) \o "Z"} ELSE {})

DateRange == {k * MsPerSecond : k \in 0..(MaxClockSeconds + 2)}

\* new Date(value) of an ISO-8601 string
parseDate(value) == CHOOSE ms \in DateRange : value \in IsoForms(ms)

isDatetime(value) == \E ms \in DateRange : value \in IsoForms(ms)

\* toDate(value?: string | null): undefined for a missing or empty value
toDate(opt) == IF ~Truthy(opt) THEN None ELSE Some(parseDate(opt[1]))

\* z.string().min(1).optional()
optNonEmpty(opt) == opt = None \/ opt[1] # ""

nonEmptyStrings(opt) ==
  opt = None \/ \A i \in 1..Len(opt[1]) : opt[1][i] # ""

\* contractCreateSchema: whether a payload parses
contractCreateSchema(p) ==
  /\ p.title # ""
  /\ p.initiator # ""
  /\ optNonEmpty(p.owner)
  /\ p.status = None \/ p.status[1] \in ContractStatuses
  /\ p.priority = None \/ p.priority[1] \in ContractPriorities
  /\ nonEmptyStrings(p.tags)
  /\ nonEmptyStrings(p.files)
  /\ p.dueAt = None \/ isDatetime(p.dueAt[1])

\* contractCreateSchema.parse: the payload with the schema's defaults applied
parseContractCreate(p) ==
  [p EXCEPT !.status = IF @ = None THEN "proposed" ELSE @[1],
            !.priority = IF @ = None THEN "medium" ELSE @[1],
            !.tags = IF @ = None THEN <<>> ELSE @[1],
            !.files = IF @ = None THEN <<>> ELSE @[1]]

\* contractUpdateSchema: actor, the field types, and at least one updatable field
contractUpdateSchema(u) ==
  /\ u.actor # ""
  /\ u.status = None \/ u.status[1] \in ContractStatuses
  /\ u.owner = None \/ optNonEmpty(u.owner[1])
  /\ nonEmptyStrings(u.tags)
  /\ nonEmptyStrings(u.files)
  /\ u.dueAt = None \/ u.dueAt[1] = None \/ isDatetime(u.dueAt[1][1])
  /\ \/ u.status # None
     \/ u.owner # None
     \/ u.note # None
     \/ u.metadata # None
     \/ u.tags # None
     \/ u.files # None
     \/ u.dueAt # None

\* generateId of contracts.ts: the n-th id it draws
contractGenerateId(n) == "c" \o ToString(n)

hasContract(cs, id) == \E i \in 1..Len(cs) : cs[i].id = id

contractIndex(cs, id) == CHOOSE i \in 1..Len(cs) : cs[i].id = id

\* getContract: the contract, for an id that hasContract
getContract(cs, id) == cs[contractIndex(cs, id)]

\* persistContracts: mark a write pending and (re)arm the debounce timer
persistContracts ==
  /\ persistPending' = TRUE
  /\ persistTimer' = "armed"

\* createContract: the new contract; it draws ids seq + 1 and seq + 2
createContract(input, seq, now) ==
  LET historyEntry == [id |-> contractGenerateId(seq + 1), timestamp |-> now,
                       actor |-> input.initiator, status |-> input.status,
                       note |-> Some("Contract created")]
  IN  [id |-> contractGenerateId(seq + 2),
       title |-> input.title,
       description |-> input.description,
       initiator |-> input.initiator,
       owner |-> input.owner,
       status |-> input.status,
       priority |-> input.priority,
       tags |-> input.tags,
       files |-> input.files,
       createdAt |-> now,
       updatedAt |-> now,
       dueAt |-> toDate(input.dueAt),
       metadata |-> input.metadata,
       relatedMessageId |-> input.relatedMessageId,
       history |-> <<historyEntry>>]

\* { ...(a || {}), ...b }: b's keys overwrite a's
mergeMetadata(a, b) ==
  LET old == IF a = None THEN <<>> ELSE a[1]
  IN  Some([k \in DOMAIN old \cup DOMAIN b |->
              IF k \in DOMAIN b THEN b[k] ELSE old[k]])

\* an update that records notes only
appendsHistory_NoteOnly(contract, update) == Truthy(update.note)

\* an update that records every note, the empty one too
appendsHistory_AnyNote(contract, update) ==
  \/ update.status # None /\ update.status[1] # contract.status
  \/ update.note # None

\* whether updateContract appends a history entry
appendsHistory(contract, update) ==
  \/ update.status # None /\ update.status[1] # contract.status
  \/ Truthy(update.note)

\* an update that leaves a completed, failed or cancelled contract as it is
updateContract_TerminalFrozen(contract, update, seq, now) ==
  IF contract.status \in {"completed", "failed", "cancelled"} THEN contract
  ELSE [contract EXCEPT
          !.status = IF update.status # None THEN update.status[1] ELSE @,
          !.updatedAt = now]

\* an update that keeps only its own entry in the history
updateContract_Rewriting(contract, update, seq, now) ==
  [contract EXCEPT
     !.status = IF update.status # None THEN update.status[1] ELSE @,
     !.updatedAt = now,
     !.history = <<[id |-> contractGenerateId(seq + 1), timestamp |-> now,
                    actor |-> update.actor, status |-> contract.status,
                    note |-> update.note]>>]

\* updateContract: the contract after the update; it draws id seq + 1 for an entry
updateContract(contract, update, seq, now) ==
  LET status == IF update.status # None /\ update.status[1] # contract.status
                THEN update.status[1] ELSE contract.status
      entry == [id |-> contractGenerateId(seq + 1), timestamp |-> now,
                actor |-> update.actor, status |-> status, note |-> update.note]
  IN  [contract EXCEPT
         !.status = status,
         !.owner = IF update.owner # None THEN update.owner[1] ELSE @,
         !.tags = IF update.tags # None THEN update.tags[1] ELSE @,
         !.files = IF update.files # None THEN update.files[1] ELSE @,
         !.metadata = IF update.metadata # None
                      THEN mergeMetadata(@, update.metadata[1]) ELSE @,
         !.dueAt = IF update.dueAt # None THEN toDate(update.dueAt[1]) ELSE @,
         !.updatedAt = now,
         !.history = IF appendsHistory(contract, update)
                     THEN Append(@, entry) ELSE @]

serializeContract(contract) ==
  [contract EXCEPT
     !.createdAt = toISOString(contract.createdAt),
     !.updatedAt = toISOString(contract.updatedAt),
     !.dueAt = IF contract.dueAt # None
               THEN Some(toISOString(contract.dueAt[1])) ELSE None,
     !.history = [i \in 1..Len(contract.history) |->
                    [id |-> contract.history[i].id,
                     timestamp |-> toISOString(contract.history[i].timestamp),
                     actor |-> contract.history[i].actor,
                     status |-> contract.history[i].status,
                     note |-> contract.history[i].note]]]

\* a link that overwrites an earlier one
attaches_Always(cs, contractId) == hasContract(cs, contractId)

\* attachMessageToContract: first writer wins; TRUE when it wrote
attaches(cs, contractId) ==
  hasContract(cs, contractId) /\ ~Truthy(getContract(cs, contractId).relatedMessageId)

attachMessageToContract(cs, contractId, messageId) ==
  IF attaches(cs, contractId)
  THEN [cs EXCEPT ![contractIndex(cs, contractId)].relatedMessageId = Some(messageId)]
  ELSE cs

(***************************************************************************)
(* Debounced persistence of the contract store (contracts.ts).  Timers     *)
(* fire and writeFile settles at any later moment.                         *)
(***************************************************************************)
\* Array.from(contracts.values()).map(serializeContract)
contractsSnapshot(cs) == [i \in 1..Len(cs) |-> serializeContract(cs[i])]

otherVars == <<clock, lockVars, messageVars, eventVars, eventClients, resp, recorder,
              orchestrator>>

\* the debounce callback up to its await: return when nothing is pending,
\* else serialize the whole store and start writeFile
persistCallback ==
  /\ writes' = IF ~persistPending THEN writes
               ELSE Append(writes, contractsSnapshot(contracts))
  /\ UNCHANGED <<contracts, contractIdSeq, persistPending, disk>>

\* the debounce timer that persistTimer names fires
PersistTimerFires ==
  /\ persistTimer = "armed"
  /\ persistTimer' = "fired"
  /\ persistCallback
  /\ UNCHANGED <<otherVars, strayTimers, writeFailed>>

\* a debounce timer whose handle was overwritten fires
StrayTimerFires ==
  /\ strayTimers.debounce > 0
  /\ strayTimers' = [strayTimers EXCEPT !.debounce = @ - 1]
  /\ persistCallback
  /\ UNCHANGED <<otherVars, persistTimer, writeFailed>>

\* the retry timer that persistTimer names fires: persistContracts()
RetryTimerFires ==
  /\ persistTimer = "retry"
  /\ persistContracts
  /\ UNCHANGED <<otherVars, contracts, contractIdSeq, diskVars>>

\* a retry timer whose handle was overwritten fires: persistContracts(), which
\* clears the timer persistTimer names
StrayRetryFires ==
  /\ strayTimers.retry > 0
  /\ strayTimers' = [strayTimers EXCEPT !.retry = @ - 1]
  /\ persistContracts
  /\ UNCHANGED <<otherVars, contracts, contractIdSeq, writes, disk, writeFailed>>

dropWrite(i) == [k \in 1..(Len(writes) - 1) |->
                   IF k < i THEN writes[k] ELSE writes[k + 1]]

\* await writeFile resolves: the file holds the snapshot, persistPending = false
WriteSucceeds ==
  \E i \in 1..Len(writes) :
    /\ disk' = [state |-> "written", contracts |-> writes[i]]
    /\ writes' = dropWrite(i)
    /\ persistPending' = FALSE
    /\ UNCHANGED <<otherVars, contracts, contractIdSeq, persistTimer, strayTimers,
                   writeFailed>>

\* await writeFile rejects: the catch arms a retry timer over the handle; the
\* file is as it was or left truncated
WriteFails ==
  \E i \in 1..Len(writes) :
    /\ writes' = dropWrite(i)
    /\ persistTimer' = "retry"
    /\ strayTimers' =
         IF persistTimer = "armed" THEN [strayTimers EXCEPT !.debounce = @ + 1]
         ELSE IF persistTimer = "retry" THEN [strayTimers EXCEPT !.retry = @ + 1]
         ELSE strayTimers
    /\ disk' \in {disk, [state |-> "truncated", contracts |-> <<>>]}
    /\ writeFailed' = TRUE
    /\ UNCHANGED <<otherVars, contracts, contractIdSeq, persistPending>>

\* flushContractPersistence (imported by the tests): cancel the timer and
\* write a pending snapshot synchronously
FlushContractPersistence ==
  /\ persistTimer' = IF persistTimer \in {"armed", "retry"} THEN "none"
                     ELSE persistTimer
  /\ IF persistPending
     THEN /\ disk' = [state |-> "written",
                      contracts |-> contractsSnapshot(contracts)]
          /\ persistPending' = FALSE
     ELSE UNCHANGED <<disk, persistPending>>
  /\ UNCHANGED <<otherVars, contracts, contractIdSeq, strayTimers, writes,
                 writeFailed>>

\* the properties that are undefined when absent
ContractOptionalKeys == {"description", "owner", "dueAt", "metadata", "relatedMessageId"}

HistoryOptionalKeys == {"note"}

\* JSON.stringify of an object: a property whose value is undefined is left out
stringifyObject(obj, optional) ==
  [k \in {key \in DOMAIN obj : key \notin optional \/ obj[key] # None} |->
     IF k \in optional THEN obj[k][1] ELSE obj[k]]

\* JSON.stringify(serialized, null, 2), as the value JSON.parse gives back
stringifyContracts(serialized) ==
  [i \in 1..Len(serialized) |->
     stringifyObject(
       [serialized[i] EXCEPT
          !.history = [j \in 1..Len(serialized[i].history) |->
                         stringifyObject(serialized[i].history[j], HistoryOptionalKeys)]],
       ContractOptionalKeys)]

\* obj.key of a parsed object: undefined when the property is absent
property(obj, key) == IF key \in DOMAIN obj THEN Some(obj[key]) ELSE None

\* a deserializeContract that reads no due date
deserializeContract_NoDueAt(serialized) ==
  [id |-> serialized.id,
   title |-> serialized.title,
   description |-> property(serialized, "description"),
   initiator |-> serialized.initiator,
   owner |-> property(serialized, "owner"),
   status |-> serialized.status,
   priority |-> serialized.priority,
   tags |-> serialized.tags,
   files |-> serialized.files,
   createdAt |-> parseDate(serialized.createdAt),
   updatedAt |-> parseDate(serialized.updatedAt),
   dueAt |-> None,
   metadata |-> property(serialized, "metadata"),
   relatedMessageId |-> property(serialized, "relatedMessageId"),
   history |-> [j \in 1..Len(serialized.history) |->
                  [id |-> serialized.history[j].id,
                   timestamp |-> parseDate(serialized.history[j].timestamp),
                   actor |-> serialized.history[j].actor,
                   status |-> serialized.history[j].status,
                   note |-> property(serialized.history[j], "note")]]]

deserializeContract(serialized) ==
  [id |-> serialized.id,
   title |-> serialized.title,
   description |-> property(serialized, "description"),
   initiator |-> serialized.initiator,
   owner |-> property(serialized, "owner"),
   status |-> serialized.status,
   priority |-> serialized.priority,
   tags |-> serialized.tags,
   files |-> serialized.files,
   createdAt |-> parseDate(serialized.createdAt),
   updatedAt |-> parseDate(serialized.updatedAt),
   dueAt |-> IF Truthy(property(serialized, "dueAt"))
             THEN Some(parseDate(serialized.dueAt)) ELSE None,
   metadata |-> property(serialized, "metadata"),
   relatedMessageId |-> property(serialized, "relatedMessageId"),
   history |-> [j \in 1..Len(serialized.history) |->
                  [id |-> serialized.history[j].id,
                   timestamp |-> parseDate(serialized.history[j].timestamp),
                   actor |-> serialized.history[j].actor,
                   status |-> serialized.history[j].status,
                   note |-> property(serialized.history[j], "note")]]]

\* loadContractsFromDisk into the empty store of a new process: nothing when
\* the file is absent or empty, nothing when JSON.parse throws, else every
\* parsed contract in file order
loadContractsFromDisk(file) ==
  IF file.state # "written" THEN <<>>
  ELSE LET parsed == stringifyContracts(file.contracts)
       IN  [i \in 1..Len(parsed) |-> deserializeContract(parsed[i])]

\* the process is restarted: memory starts empty, timers and writes in flight
\* are gone, and the module loads the contracts file
Startup ==
  /\ contracts' = loadContractsFromDisk(disk)
  /\ persistPending' = FALSE
  /\ persistTimer' = "none"
  /\ strayTimers' = [debounce |-> 0, retry |-> 0]
  /\ writes' = <<>>
  /\ locks' = <<>>
  /\ granted' = [r \in Resources |-> None]
  /\ messages' = <<>>
  /\ messagesById' = <<>>
  /\ messagesByRecipient' = <<>>
  /\ eventHistory' = <<>>
  /\ eventHistoryIndex' = 0
  /\ clearedAt' = Len(eventLog)
  /\ eventClients' = {}
  /\ streams' = [c \in Clients |->
                   IF streams[c].state \in {"open", "broken"}
                   THEN [streams[c] EXCEPT !.state = "closed"] ELSE streams[c]]
  /\ resp' = [op |-> "none", status |-> 0, body |-> [success |-> TRUE]]
  /\ UNCHANGED <<clock, contractIdSeq, disk, writeFailed, eventLog, ackedEver, ackSkipped,
                 recorder, orchestrator>>

(***************************************************************************)
(* Message store and the contract routes (src/src/index.ts).  The          *)
(* timestamps one of these handlers records are taken in one clock reading.*)
(***************************************************************************)
\* generateId of index.ts for the n-th message
messageGenerateId(n) == "m" \o ToString(n)

publishMessageSchema(body) ==
  /\ body.recipient # ""
  /\ body.content # ""
  /\ optNonEmpty(body.sender)
  /\ optNonEmpty(body.contractId)
  /\ body.contract = None \/ contractCreateSchema(body.contract[1])
  /\ ~(body.contract # None /\ Truthy(body.contractId))

\* a publish that never looks the contractId up
contractNotFound_Unchecked(body) == FALSE

\* publish_message's lookup of contractId: TRUE when it must answer 404
contractNotFound(body) ==
  Truthy(body.contractId) /\ ~hasContract(contracts, body.contractId[1])

\* POST /publish_message
PublishMessage(bodies) ==
  \E body \in bodies :
    IF ~publishMessageSchema(body) THEN handleRouteError("publish_message")
    ELSE IF contractNotFound(body)
    THEN /\ Respond("publish_message", 404,
                    [success |-> FALSE, error |-> "Contract not found"])
         /\ UNCHANGED <<diskVars, clock, lockVars, messageVars, contractVars, eventVars,
                        eventClients>>
    ELSE
      LET creates == body.contract # None
          createdContract ==
            createContract(parseContractCreate(body.contract[1]), contractIdSeq, clock)
          created == IF creates THEN Append(contracts, createdContract) ELSE contracts
          resolvedContractId ==
            IF creates THEN Some(createdContract.id) ELSE body.contractId
          message == [id |-> messageGenerateId(Len(messages) + 1),
                      recipient |-> body.recipient,
                      content |-> body.content,
                      timestamp |-> clock,
                      acknowledged |-> FALSE,
                      sender |-> body.sender,
                      contractId |-> resolvedContractId]
          links == Truthy(resolvedContractId)
          linked == IF links
                    THEN attachMessageToContract(created, resolvedContractId[1], message.id)
                    ELSE created
          events ==
            (IF creates
             THEN <<[type |-> "contract.created", at |-> clock,
                     data |-> [contract |-> serializeContract(createdContract)]]>>
             ELSE <<>>)
            \o (IF links
                THEN <<[type |-> "contract.message_linked", at |-> clock,
                        data |-> [contractId |-> resolvedContractId[1],
                                  messageId |-> message.id]]>>
                ELSE <<>>)
            \o <<[type |-> "message.published", at |-> clock,
                  data |-> [messageId |-> message.id, recipient |-> body.recipient,
                            sender |-> body.sender,
                            contractId |-> resolvedContractId]]>>
          \* a throw leaves the try block: after contract.created no message
          \* has been stored yet; after the later events everything has
          pushed == Len(pushEvents(EventState, events).log) - Len(eventLog)
          throws == emitThrows(events)
          stored == ~(throws /\ creates /\ pushed = 1)
      IN  /\ contracts' = IF stored THEN linked ELSE created
          /\ contractIdSeq' = IF creates THEN contractIdSeq + 2 ELSE contractIdSeq
          /\ IF creates \/ (stored /\ links /\ attaches(created, resolvedContractId[1]))
             THEN persistContracts
             ELSE UNCHANGED <<persistPending, persistTimer>>
          /\ IF stored
             THEN /\ messages' = Append(messages, message)
                  /\ messagesById' = messagesById @@ (message.id :> (Len(messages) + 1))
                  /\ messagesByRecipient' =
                       IF body.recipient \in DOMAIN messagesByRecipient
                       THEN [messagesByRecipient EXCEPT
                               ![body.recipient] = Append(@, Len(messages) + 1)]
                       ELSE messagesByRecipient
                              @@ (body.recipient :> <<Len(messages) + 1>>)
             ELSE UNCHANGED <<messages, messagesById, messagesByRecipient>>
          /\ UNCHANGED <<ackedEver, ackSkipped>>
          /\ EmitUntilThrow(events)
          /\ IF throws
             THEN Respond("publish_message", 500,
                          [success |-> FALSE, error |-> "Internal server error"])
             ELSE Respond("publish_message", 201,
                          [success |-> TRUE, messageId |-> message.id,
                           contractId |-> resolvedContractId,
                           contract |-> IF creates
                                        THEN Some(serializeContract(
                                               getContract(linked, createdContract.id)))
                                        ELSE None])
          /\ UNCHANGED <<diskVars, clock, lockVars, eventClients>>

\* a fetch that forgets to drop the acknowledged messages
pendingMessages_Unfiltered(recipient) ==
  LET allMessages == IF recipient \in DOMAIN messagesByRecipient
                     THEN messagesByRecipient[recipient] ELSE <<>>
  IN  [k \in 1..Len(allMessages) |-> messages[allMessages[k]]]

\* a fetch that answers the newest message first
pendingMessages_NewestFirst(recipient) ==
  LET allMessages == IF recipient \in DOMAIN messagesByRecipient
                     THEN messagesByRecipient[recipient] ELSE <<>>
      recipientMessages == SelectSeq(allMessages, LAMBDA i : ~messages[i].acknowledged)
  IN  [k \in 1..Len(recipientMessages) |->
         messages[recipientMessages[Len(recipientMessages) + 1 - k]]]

\* the unacknowledged messages of a recipient, in the order of its index
pendingMessages(recipient) ==
  LET allMessages == IF recipient \in DOMAIN messagesByRecipient
                     THEN messagesByRecipient[recipient] ELSE <<>>
      recipientMessages == SelectSeq(allMessages, LAMBDA i : ~messages[i].acknowledged)
  IN  [k \in 1..Len(recipientMessages) |-> messages[recipientMessages[k]]]

\* GET /fetch_messages/:recipient
FetchMessages(recipients) ==
  \E recipient \in recipients :
    /\ Respond("fetch_messages", 200,
               [success |-> TRUE, messages |-> pendingMessages(recipient)])
    /\ UNCHANGED <<diskVars, clock, lockVars, messageVars, contractVars, eventVars, eventClients>>

\* an ids.forEach that flips the flag of every known id
RECURSIVE ackEach_Toggling(_, _, _)
ackEach_Toggling(acc, byId, ids) ==
  IF ids = <<>> THEN acc
  ELSE LET id == Head(ids)
           known == id \in DOMAIN byId
           i == byId[id]
       IN  IF known
           THEN ackEach_Toggling(
                  [messages |-> [acc.messages EXCEPT
                                   ![i].acknowledged = ~acc.messages[i].acknowledged],
                   acknowledgedCount |-> acc.acknowledgedCount + 1,
                   events |-> Append(acc.events,
                     [type |-> "message.acknowledged", at |-> clock,
                      data |-> [messageId |-> acc.messages[i].id,
                                recipient |-> acc.messages[i].recipient]])],
                  byId, Tail(ids))
           ELSE ackEach_Toggling(acc, byId, Tail(ids))

\* an ids.forEach that counts every known id, acknowledged before or not
RECURSIVE ackEach_CountingKnown(_, _, _)
ackEach_CountingKnown(acc, byId, ids) ==
  IF ids = <<>> THEN acc
  ELSE LET id == Head(ids)
           known == id \in DOMAIN byId
           i == byId[id]
       IN  IF known
           THEN ackEach_CountingKnown(
                  [messages |-> [acc.messages EXCEPT ![i].acknowledged = TRUE],
                   acknowledgedCount |-> acc.acknowledgedCount + 1,
                   events |-> Append(acc.events,
                     [type |-> "message.acknowledged", at |-> clock,
                      data |-> [messageId |-> acc.messages[i].id,
                                recipient |-> acc.messages[i].recipient]])],
                  byId, Tail(ids))
           ELSE ackEach_CountingKnown(acc, byId, Tail(ids))

\* ids.forEach of ack_message: the messages, the events and the count it leaves
RECURSIVE ackEach(_, _, _)
ackEach(acc, byId, ids) ==
  IF ids = <<>> THEN acc
  ELSE LET id == Head(ids)
           known == id \in DOMAIN byId
           i == byId[id]
       IN  IF known /\ ~acc.messages[i].acknowledged
           THEN ackEach(
                  [messages |-> [acc.messages EXCEPT ![i].acknowledged = TRUE],
                   acknowledgedCount |-> acc.acknowledgedCount + 1,
                   events |-> Append(acc.events,
                     [type |-> "message.acknowledged", at |-> clock,
                      data |-> [messageId |-> acc.messages[i].id,
                                recipient |-> acc.messages[i].recipient]])],
                  byId, Tail(ids))
           ELSE ackEach(acc, byId, Tail(ids))

\* POST /ack_message; a body is [isArray, ids]
AckMessage(bodies) ==
  \E body \in bodies :
    IF ~body.isArray THEN handleRouteError("ack_message")
    ELSE
      LET done == ackEach([messages |-> messages, acknowledgedCount |-> 0,
                           events |-> <<>>], messagesById, body.ids)
      IN  /\ messages' = done.messages
          /\ ackedEver' = ackedEver \cup
               {body.ids[k] : k \in {j \in 1..Len(body.ids) :
                                       \E i \in 1..Len(messages) :
                                         messages[i].id = body.ids[j]}}
          /\ ackSkipped' =
               LET unknown == Cardinality({k \in 1..Len(body.ids) :
                                             body.ids[k] \notin DOMAIN messagesById})
               IN  [unknown |-> unknown,
                    acknowledged |-> Len(body.ids) - unknown - done.acknowledgedCount]
          /\ Emit(done.events)
          /\ Respond("ack_message", 200,
                     [success |-> TRUE, acknowledgedCount |-> done.acknowledgedCount])
          /\ UNCHANGED <<diskVars, clock, lockVars, messagesById, messagesByRecipient,
                         contractVars, eventClients>>

\* POST /contracts
CreateContract(payloads) ==
  \E payload \in payloads :
    IF ~contractCreateSchema(payload) THEN handleRouteError("create_contract")
    ELSE
      LET contract == createContract(parseContractCreate(payload), contractIdSeq, clock)
      IN  /\ contracts' = Append(contracts, contract)
          /\ contractIdSeq' = contractIdSeq + 2
          /\ persistContracts
          /\ Emit(<<[type |-> "contract.created", at |-> clock,
                     data |-> [contract |-> serializeContract(contract)]]>>)
          /\ Respond("create_contract", 201,
                     [success |-> TRUE, contract |-> serializeContract(contract)])
          /\ UNCHANGED <<diskVars, clock, lockVars, messageVars, eventClients>>

\* GET /contracts/:id
GetContract(ids) ==
  \E id \in ids :
    /\ IF ~hasContract(contracts, id)
       THEN Respond("get_contract", 404,
                    [success |-> FALSE, error |-> "Contract not found"])
       ELSE Respond("get_contract", 200,
                    [success |-> TRUE,
                     contract |-> serializeContract(getContract(contracts, id))])
    /\ UNCHANGED <<diskVars, clock, lockVars, messageVars, contractVars, eventVars, eventClients>>

\* PATCH /contracts/:id/status
UpdateContractStatus(ids, payloads) ==
  \E id \in ids, payload \in payloads :
    IF ~contractUpdateSchema(payload) THEN handleRouteError("update_contract")
    ELSE IF ~hasContract(contracts, id)
    THEN /\ Respond("update_contract", 404,
                    [success |-> FALSE, error |-> "Contract not found"])
         /\ UNCHANGED <<diskVars, clock, lockVars, messageVars, contractVars, eventVars,
                        eventClients>>
    ELSE
      LET contract == getContract(contracts, id)
          updatedContract == updateContract(contract, payload, contractIdSeq, clock)
      IN  /\ contracts' = [contracts EXCEPT ![contractIndex(contracts, id)] = updatedContract]
          /\ contractIdSeq' = IF appendsHistory(contract, payload)
                              THEN contractIdSeq + 1 ELSE contractIdSeq
          /\ persistContracts
          /\ Emit(<<[type |-> "contract.updated", at |-> clock,
                     data |-> [contract |-> serializeContract(updatedContract),
                               actor |-> payload.actor, note |-> payload.note]]>>)
          /\ Respond("update_contract", 200,
                     [success |-> TRUE, contract |-> serializeContract(updatedContract)])
          /\ UNCHANGED <<diskVars, clock, lockVars, messageVars, eventClients>>

(***************************************************************************)
(* SessionRecorder (scripts/session-recorder.mjs): the debounced transcript *)
(* of an orchestration run.                                                *)
(***************************************************************************)
NoMeta ==
  [startedAt |-> None, completedAt |-> None, success |-> None, finalAgent |-> None,
   totalTurns |-> None, finalEnvelope |-> None]

\* { meta: this.meta, history: this.history } as JSON.stringify captures it
recorderPayload(r) == [meta |-> r.meta, history |-> r.history]

\* a ?? b
Coalesce(a, b) == IF a # None THEN a ELSE b

recorderVarsUnchanged ==
  UNCHANGED <<clock, lockVars, messageVars, contractVars, eventVars, eventClients, resp,
              strayTimers, writes, disk, writeFailed, orchestrator>>

\* start(meta): set the meta and the path, write the file synchronously
RecorderStart ==
  /\ recorder.filePath = ""
  /\ LET started == [recorder EXCEPT !.meta.startedAt = Some(clock),
                                     !.filePath = "session.json"]
     IN  recorder' = [started EXCEPT !.file = Some(recorderPayload(started))]
  /\ recorderVarsUnchanged

\* persist(): nothing without a path; else mark pending and (re)arm the timer
recorderPersist(r) ==
  IF r.filePath = "" THEN r
  ELSE [r EXCEPT !.persistPending = TRUE, !.persistTimer = "armed"]

\* recordTurn(turn): push the entry, then persist()
RecordTurn ==
  /\ Len(recorder.history) < MaxTurns
  /\ recorder.finalize # "resolved"
  /\ recorder' = recorderPersist(
                    [recorder EXCEPT !.history = Append(@, Len(@) + 1)])
  /\ recorderVarsUnchanged

\* the debounce timer fires: return when nothing is pending, else start
\* writeFile with the payload as it is now
RecorderTimerFires ==
  /\ recorder.persistTimer = "armed"
  /\ recorder' =
       [recorder EXCEPT
          !.persistTimer = "fired",
          !.writes = IF recorder.persistPending
                     THEN Append(@, [payload |-> recorderPayload(recorder),
                                     from |-> "persist"])
                     ELSE @]
  /\ recorderVarsUnchanged

\* flushPersist() up to its await: return when there is no path or nothing
\* pending, else cancel the timer and start writeFile
flushPersist(r) ==
  IF r.filePath = "" \/ ~r.persistPending THEN r
  ELSE [r EXCEPT
          !.persistTimer = IF @ # "none" THEN "none" ELSE @,
          !.writes = Append(@, [payload |-> recorderPayload(r), from |-> "flush"])]

FinalizeResults ==
  {[success |-> Some(TRUE), finalAgent |-> Some("verifier"), totalTurns |-> None,
    finalEnvelope |-> Some("envelope")],
   [success |-> None, finalAgent |-> None, totalTurns |-> Some(1),
    finalEnvelope |-> None]}

\* finalize(result) up to the await of flushPersist(); the promise resolves at
\* once when flushPersist returned without writing
Finalize(results) ==
  \E result \in results :
    /\ recorder.filePath # ""
    /\ recorder.finalize = "idle"
    /\ LET final ==
             [recorder EXCEPT
                !.meta.completedAt = Some(clock),
                !.meta.success = Some(Coalesce(Coalesce(result.success, @), Some(FALSE))[1]),
                !.meta.finalAgent = Coalesce(result.finalAgent, @),
                !.meta.totalTurns = Coalesce(result.totalTurns,
                                             Some(Len(recorder.history))),
                !.meta.finalEnvelope = IF Truthy(result.finalEnvelope)
                                       THEN result.finalEnvelope ELSE @]
           flushed == flushPersist(final)
       IN  recorder' = [flushed EXCEPT
                          !.finalize = IF Len(flushed.writes) > Len(recorder.writes)
                                       THEN "awaiting" ELSE "resolved"]
    /\ recorderVarsUnchanged

dropRecorderWrite(i) ==
  [k \in 1..(Len(recorder.writes) - 1) |->
     IF k < i THEN recorder.writes[k] ELSE recorder.writes[k + 1]]

\* a writeFile resolves: the file holds its payload and persistPending is
\* cleared; the write of flushPersist also resolves finalize()
RecorderWriteSucceeds ==
  \E i \in 1..Len(recorder.writes) :
    /\ recorder' =
         [recorder EXCEPT
            !.writes = dropRecorderWrite(i),
            !.file = Some(recorder.writes[i].payload),
            !.persistPending = FALSE,
            !.finalize = IF recorder.writes[i].from = "flush" THEN "resolved" ELSE @]
    /\ recorderVarsUnchanged

\* a writeFile rejects: the error is logged; flushPersist rethrows it, so
\* finalize() rejects
RecorderWriteFails ==
  \E i \in 1..Len(recorder.writes) :
    /\ recorder' =
         [recorder EXCEPT
            !.writes = dropRecorderWrite(i),
            !.finalize = IF recorder.writes[i].from = "flush" THEN "rejected" ELSE @]
    /\ recorderVarsUnchanged

\* an orchestration run: start, turns, timers, writes and the finalize call
NextRecorder ==
  \/ Tick
  \/ RecorderStart
  \/ RecordTurn
  \/ RecorderTimerFires
  \/ Finalize(FinalizeResults)
  \/ RecorderWriteSucceeds
  \/ RecorderWriteFails

(***************************************************************************)
(* NodeOrchestrator (scripts/orchestrator.mjs): the turn loop of           *)
(* processTask and the finalize call of main.                              *)
(***************************************************************************)
\* this.maxTurns
maxTurns == 8

Agents == {"analyst", "implementer", "verifier"}

\* what the agent of a turn comes back with: a throw (of the agent, of the
\* envelope schema or of a check), or an envelope with its handoff, its phase
\* and the outcome of its checks
AgentEnvelopes ==
  [handoff : {None} \cup {Some(h) : h \in Agents \cup {"complete"}},
   phase : {"implementation", "verification"},
   checks : {"none", "passed", "failed"}]

\* normalizeAgentExchange: a missing handoff becomes 'complete'
normalizeHandoff(handoff) == IF handoff = None THEN "complete" ELSE handoff[1]

\* applyEnvelopeChecks: the handoff of the envelope after its checks have run;
\* a failed check of the verifier (or of a verification envelope) turns
\* 'complete' into 'analyst'
checkedHandoff(agent, envelope) ==
  LET handoff == normalizeHandoff(envelope.handoff)
  IN  IF agent # "verifier" /\ envelope.phase # "verification" THEN handoff
      ELSE IF envelope.checks = "none" THEN handoff
      ELSE IF envelope.checks = "failed" /\ handoff = "complete" THEN "analyst"
      ELSE handoff

\* mapHandoffToAgent
mapHandoffToAgent(handoff) == IF handoff \in Agents THEN handoff ELSE "complete"

\* the value processTask returns
processTaskResult(success, o) ==
  [success |-> success /\ o.turnCount <= maxTurns, totalTurns |-> o.turnCount,
   finalAgent |-> o.currentAgent]

orchestratorVarsUnchanged ==
  UNCHANGED <<clock, lockVars, messageVars, contractVars, eventVars, eventClients, resp,
              strayTimers, writes, disk, writeFailed>>

\* processTask up to its loop: recorder.start, then recordTurn of turn 0
ProcessTaskStarts ==
  /\ orchestrator.state = "new"
  /\ recorder.filePath = ""
  /\ orchestrator' = [orchestrator EXCEPT !.state = "running"]
  /\ LET started == [recorder EXCEPT !.meta.startedAt = Some(clock),
                                     !.filePath = "session.json"]
         written == [started EXCEPT !.file = Some(recorderPayload(started))]
     IN  recorder' = recorderPersist([written EXCEPT !.history = Append(@, Len(@) + 1)])
  /\ orchestratorVarsUnchanged

\* one pass of the while loop whose agent or checks throw: the catch sets
\* success = false and breaks, and processTask returns
TurnThrows ==
  /\ orchestrator.state = "running"
  /\ orchestrator.turnCount < maxTurns
  /\ LET turned == [orchestrator EXCEPT !.turnCount = @ + 1]
     IN  orchestrator' = [turned EXCEPT
                            !.state = "returned",
                            !.result = Some(processTaskResult(FALSE, turned))]
  /\ UNCHANGED recorder
  /\ orchestratorVarsUnchanged

\* one pass of the while loop whose agent answers: record the turn, then
\* break on a handoff to 'complete' or hand over to the next agent; processTask
\* returns after a break and when the loop condition fails
Turn(envelopes) ==
  \E envelope \in envelopes :
    /\ orchestrator.state = "running"
    /\ orchestrator.turnCount < maxTurns
    /\ recorder' = recorderPersist([recorder EXCEPT !.history = Append(@, Len(@) + 1)])
    /\ LET nextAgent == mapHandoffToAgent(
                           checkedHandoff(orchestrator.currentAgent, envelope))
           turned == [orchestrator EXCEPT
                        !.turnCount = @ + 1,
                        !.completed = nextAgent = "complete",
                        !.currentAgent = IF nextAgent = "complete" THEN @
                                         ELSE nextAgent]
       IN  orchestrator' =
             IF nextAgent = "complete" \/ turned.turnCount >= maxTurns
             THEN [turned EXCEPT !.state = "returned",
                                 !.result = Some(processTaskResult(TRUE, turned))]
             ELSE turned
    /\ orchestratorVarsUnchanged

\* what main passes to recorder.finalize
mainFinalizeResult ==
  [success |-> Some(orchestrator.result[1].success),
   finalAgent |-> Some(orchestrator.result[1].finalAgent),
   totalTurns |-> Some(orchestrator.result[1].totalTurns),
   finalEnvelope |-> Some("envelope")]

\* main after processTask has returned: recorder.finalize(...)
MainFinalizes ==
  /\ orchestrator.state = "returned"
  /\ Finalize({mainFinalizeResult})

\* process.exit(1) of main when the result is not a success
mainExitCode == IF orchestrator.result[1].success THEN 0 ELSE 1

\* a run of the orchestrator with its session recorder
NextOrchestrator ==
  \/ ProcessTaskStarts
  \/ TurnThrows
  \/ Turn(AgentEnvelopes)
  \/ MainFinalizes
  \/ RecorderTimerFires
  \/ RecorderWriteSucceeds

(***************************************************************************)
(* Initial state and the specifications.                                   *)
(***************************************************************************)
Init ==
  /\ clock = 0
  /\ locks = <<>>
  /\ granted = [r \in Resources |-> None]
  /\ messages = <<>>
  /\ messagesById = <<>>
  /\ messagesByRecipient = <<>>
  /\ ackedEver = {}
  /\ ackSkipped = [unknown |-> 0, acknowledged |-> 0]
  /\ contracts = <<>>
  /\ contractIdSeq = 0
  /\ persistPending = FALSE
  /\ persistTimer = "none"
  /\ strayTimers = [debounce |-> 0, retry |-> 0]
  /\ writes = <<>>
  /\ disk = [state |-> "absent", contracts |-> <<>>]
  /\ writeFailed = FALSE
  /\ eventHistory = <<>>
  /\ eventHistoryIndex = 0
  /\ eventClients = {}
  /\ streams = [c \in Clients |-> [state |-> "idle", joined |-> 0,
                                   connectedAt |-> 0, out |-> <<>>]]
  /\ eventLog = <<>>
  /\ clearedAt = 0
  /\ resp = [op |-> "none", status |-> 0, body |-> [success |-> TRUE]]
  /\ recorder = [filePath |-> "", meta |-> NoMeta, history |-> <<>>,
                 persistTimer |-> "none", persistPending |-> FALSE,
                 writes |-> <<>>, file |-> None, finalize |-> "idle"]
  /\ orchestrator = [currentAgent |-> "analyst", turnCount |-> 0, state |-> "new",
                     completed |-> FALSE, result |-> None]

\* the lock registry under its three routes and the clock
NextLocks ==
  \/ Tick
  \/ /\ Len(eventLog) < MaxLockEvents
     /\ LockResource(LockBodies)
  \/ /\ Len(eventLog) < MaxLockEvents
     /\ RenewLock(RenewBodies)
  \/ /\ Len(eventLog) < MaxLockEvents
     /\ UnlockResource(Resources)

SpecLocks == Init /\ [][NextLocks]_vars


(***************************************************************************)
(* Request bodies the specifications draw from.                            *)
(***************************************************************************)
MinimalContract ==
  [title |-> "T", description |-> None, initiator |-> "cursor", owner |-> None,
   status |-> None, priority |-> None, tags |-> None, files |-> None,
   dueAt |-> None, metadata |-> None, relatedMessageId |-> None]

PlainBodies ==
  [recipient : Recipients, content : {"hi"}, sender : {None, Some("cursor")},
   contractId : {None}, contract : {None}]

InvalidPublishBodies ==
  {[recipient |-> "", content |-> "", sender |-> None, contractId |-> None,
    contract |-> None],
   [recipient |-> "codex", content |-> "hi", sender |-> Some(""),
    contractId |-> None, contract |-> None],
   [recipient |-> "codex", content |-> "hi", sender |-> None,
    contractId |-> Some("missing-contract-id"), contract |-> Some(MinimalContract)],
   [recipient |-> "codex", content |-> "hi", sender |-> None, contractId |-> None,
    contract |-> Some([MinimalContract EXCEPT !.title = ""])]}

\* the sequences of at most n elements of S
RECURSIVE SeqsUpTo(_, _)
SeqsUpTo(S, n) ==
  IF n = 0 THEN {<<>>}
  ELSE LET shorter == SeqsUpTo(S, n - 1)
       IN  shorter \cup {Append(q, x) : q \in shorter, x \in S}

MessageIds == {messages[i].id : i \in 1..Len(messages)}

AckBodies ==
  {[isArray |-> FALSE, ids |-> <<>>]} \cup
  {[isArray |-> TRUE, ids |-> ids] :
     ids \in SeqsUpTo(MessageIds \cup {"unknown-id"}, MaxAckIds)}

\* the mailbox: publish, fetch and acknowledge
NextMessages ==
  \/ /\ Len(messages) < MaxMessages
     /\ PublishMessage(PlainBodies \cup InvalidPublishBodies)
  \/ FetchMessages(Recipients)
  \/ AckMessage(AckBodies)

SpecMessages == Init /\ [][NextMessages]_vars

\* publishers and acknowledgers only
NextAcks ==
  \/ /\ Len(messages) < MaxAckMessages
     /\ PublishMessage(PlainBodies)
  \/ AckMessage(AckBodies)

SpecAcks == Init /\ [][NextAcks]_vars

FullContract ==
  [title |-> "Analyse changes", description |-> Some("Review"),
   initiator |-> "cursor", owner |-> Some("codex"), status |-> Some("accepted"),
   priority |-> Some("high"), tags |-> Some(<<"analysis">>),
   files |-> Some(<<"src/index.ts">>), dueAt |-> Some("1970-01-01T00:00:02Z"),
   metadata |-> Some([sprint |-> "alpha"]), relatedMessageId |-> None]

ValidCreatePayloads ==
  {MinimalContract, FullContract,
   [MinimalContract EXCEPT !.relatedMessageId = Some("ext-message")],
   [MinimalContract EXCEPT !.relatedMessageId = Some("")]}

CreatePayloads ==
  ValidCreatePayloads \cup
  {[MinimalContract EXCEPT !.title = ""],
   [MinimalContract EXCEPT !.status = Some("done")]}

NoUpdate ==
  [actor |-> "codex", status |-> None, owner |-> None, note |-> None,
   metadata |-> None, tags |-> None, files |-> None, dueAt |-> None]

ValidUpdatePayloads ==
  {[NoUpdate EXCEPT !.status = Some("in_progress"), !.note = Some("Work started")],
   [NoUpdate EXCEPT !.status = Some("proposed")],
   [NoUpdate EXCEPT !.status = Some("completed")],
   [NoUpdate EXCEPT !.note = Some("")],
   [NoUpdate EXCEPT !.note = Some("Checked")],
   [NoUpdate EXCEPT !.owner = Some(None)],
   [NoUpdate EXCEPT !.owner = Some(Some("cursor")), !.tags = Some(<<"x">>),
                    !.files = Some(<<>>), !.dueAt = Some(Some("1970-01-01T00:00:03.000Z")),
                    !.metadata = Some([sprint |-> "beta", team |-> "core"])]}

UpdatePayloads ==
  ValidUpdatePayloads \cup {NoUpdate, [NoUpdate EXCEPT !.actor = "", !.note = Some("n")]}

ContractIds == {contracts[i].id : i \in 1..Len(contracts)}

RequestedContractIds == ContractIds \cup {"missing-contract-id"}

\* publish bodies that refer to a contract, by id or inline
LinkBodies ==
  [recipient : {"codex"}, content : {"hi"}, sender : {Some("cursor")},
   contractId : {Some(id) : id \in RequestedContractIds}, contract : {None}]

InlineBodies ==
  [recipient : {"codex"}, content : {"hi"}, sender : {Some("cursor")},
   contractId : {None}, contract : {Some(c) : c \in ValidCreatePayloads}]

\* the contract store under its routes and the publishes that link to it
NextContracts ==
  \/ /\ Len(eventLog) < MaxContractEvents
     /\ Len(contracts) < MaxContracts
     /\ CreateContract(CreatePayloads)
  \/ /\ Len(eventLog) < MaxContractEvents
     /\ Len(contracts) < MaxContracts
     /\ Len(messages) < MaxLinks
     /\ PublishMessage(InlineBodies)
  \/ /\ Len(eventLog) < MaxContractEvents
     /\ Len(messages) < MaxLinks
     /\ PublishMessage(LinkBodies)
  \/ /\ Len(eventLog) < MaxContractEvents
     /\ UpdateContractStatus(RequestedContractIds, UpdatePayloads)
  \/ GetContract(RequestedContractIds)

SpecContracts == Init /\ [][NextContracts]_vars

BurstBodies ==
  {[recipient |-> "benchmark-agent", content |-> "Event", sender |-> Some("benchmark"),
    contractId |-> None, contract |-> None]}

BurstInlineBodies ==
  {[recipient |-> "codex", content |-> "hi", sender |-> Some("cursor"),
    contractId |-> None, contract |-> Some(MinimalContract)]}

\* one subscriber: a replay depends on the buffer alone
BurstClients == {1}

\* a burst of publishes that fills and wraps the replay buffer, and a subscriber
\* that connects at any point of it
NextEvents ==
  \/ /\ Len(eventLog) < MaxBurstEvents
     /\ Len(messages) < BurstSetup
     /\ PublishMessage(BurstInlineBodies)
  \/ /\ Len(eventLog) < MaxBurstEvents
     /\ PublishMessage(BurstBodies)
  \/ Subscribe(BurstClients)

SpecEvents == Init /\ [][NextEvents]_vars

\* publishes that fill and wrap the replay buffer, before and after a clear;
\* the first clear comes at any moment, the later ones when the buffer is full
NextReplay ==
  \/ /\ Len(eventLog) < MaxReplayEvents
     /\ Len(messages) < BurstSetup
     /\ PublishMessage(BurstInlineBodies)
  \/ /\ Len(eventLog) < MaxReplayEvents
     /\ PublishMessage(BurstBodies)
  \/ /\ clearedAt = 0 \/ Len(eventHistory) = EVENT_HISTORY_LIMIT
     /\ ClearEventHistory

SpecReplay == Init /\ [][NextReplay]_vars

PersistCreatePayloads == {MinimalContract}

PersistUpdatePayloads ==
  {[NoUpdate EXCEPT !.status = Some("in_progress")],
   [NoUpdate EXCEPT !.status = Some("completed")]}

\* contract mutations racing with the debounce timer and the file write
NextDebounce ==
  \/ Len(eventLog) < MaxMutations /\ CreateContract(PersistCreatePayloads)
  \/ Len(eventLog) < MaxMutations
       /\ UpdateContractStatus(ContractIds, PersistUpdatePayloads)
  \/ PersistTimerFires
  \/ StrayTimerFires
  \/ RetryTimerFires
  \/ StrayRetryFires
  \/ WriteSucceeds
  \/ WriteFails

SpecDebounce == Init /\ [][NextDebounce]_vars

\* the same, with callers that request a flush
NextPersistence ==
  \/ Len(eventLog) < MaxMutations /\ CreateContract(PersistCreatePayloads)
  \/ Len(eventLog) < MaxMutations
       /\ UpdateContractStatus(ContractIds, PersistUpdatePayloads)
  \/ PersistTimerFires
  \/ StrayTimerFires
  \/ RetryTimerFires
  \/ StrayRetryFires
  \/ WriteSucceeds
  \/ WriteFails
  \/ FlushContractPersistence

SpecPersistence == Init /\ [][NextPersistence]_vars

StartupCreatePayloads == {MinimalContract, FullContract}

StartupUpdatePayloads ==
  {[NoUpdate EXCEPT !.status = Some("in_progress"), !.note = Some("Work started")],
   [NoUpdate EXCEPT !.owner = Some(None), !.dueAt = Some(Some("1970-01-01T00:00:03.000Z")),
                    !.metadata = Some([team |-> "core"]), !.note = Some("Checked")],
   [NoUpdate EXCEPT !.status = Some("completed"), !.dueAt = Some(None)]}

\* contract mutations, their persistence, and restarts of the process
NextStartup ==
  \/ /\ Len(eventLog) < MaxStartupMutations
     /\ Len(contracts) < MaxStartupContracts
     /\ CreateContract(StartupCreatePayloads)
  \/ Len(eventLog) < MaxStartupMutations
       /\ UpdateContractStatus(ContractIds, StartupUpdatePayloads)
  \/ Tick
  \/ PersistTimerFires
  \/ WriteSucceeds
  \/ WriteFails
  \/ RetryTimerFires
  \/ StrayTimerFires
  \/ StrayRetryFires
  \/ Startup

SpecStartup == Init /\ [][NextStartup]_vars

SpecRecorder == Init /\ [][NextRecorder]_vars

\* contracts created in each of the six statuses
LifecycleCreatePayloads ==
  {[MinimalContract EXCEPT !.status = Some(s)] : s \in ContractStatuses}

\* updates to each of the six statuses, by the owner-to-be and by a stranger
LifecycleUpdatePayloads ==
  {[NoUpdate EXCEPT !.actor = a, !.status = Some(s)] :
     a \in {"codex", "stranger"}, s \in ContractStatuses}

\* a contract taken through any sequence of statuses
NextLifecycle ==
  \/ /\ Len(eventLog) < MaxLifecycleEvents
     /\ Len(contracts) < MaxContracts
     /\ CreateContract(LifecycleCreatePayloads)
  \/ /\ Len(eventLog) < MaxLifecycleEvents
     /\ UpdateContractStatus(ContractIds, LifecycleUpdatePayloads)

SpecLifecycle == Init /\ [][NextLifecycle]_vars

SpecOrchestrator == Init /\ [][NextOrchestrator]_vars

SinkBodies ==
  {[recipient |-> "codex", content |-> "hi", sender |-> Some("cursor"),
    contractId |-> None, contract |-> None],
   [recipient |-> "codex", content |-> "hi", sender |-> Some("cursor"),
    contractId |-> None, contract |-> Some(MinimalContract)]}

\* publishers and subscribers that come, break and go
NextSinks ==
  \/ Len(eventLog) < MaxSinkEvents /\ PublishMessage(SinkBodies)
  \/ Subscribe(Clients)
  \/ BreakStream
  \/ CloseStream

SpecSinks == Init /\ [][NextSinks]_vars

CoreLockBodies ==
  [resource : Resources, holder : {"a"}, ttl : {1}]
    \cup {[resource |-> "", holder |-> "", ttl |-> -1],
          [resource |-> "r1", holder |-> "a", ttl |-> 0]}

CoreRenewBodies ==
  [resource : Resources, ttl : {1}] \cup {[resource |-> "r1", ttl |-> 0]}

CorePublishBodies ==
  {[recipient |-> "codex", content |-> "hi", sender |-> Some("cursor"),
    contractId |-> None, contract |-> None],
   [recipient |-> "codex", content |-> "hi", sender |-> Some("cursor"),
    contractId |-> None, contract |-> Some(MinimalContract)]}
  \cup LinkBodies \cup InvalidPublishBodies

CoreAckBodies ==
  {[isArray |-> FALSE, ids |-> <<>>]} \cup
  {[isArray |-> TRUE, ids |-> <<id>>] : id \in MessageIds \cup {"unknown-id"}}

CoreCreatePayloads == {MinimalContract, [MinimalContract EXCEPT !.title = ""]}

CoreUpdatePayloads ==
  {[NoUpdate EXCEPT !.status = Some("in_progress"), !.note = Some("Work started")],
   NoUpdate}

\* the request handlers of the facade, each on the bodies above
HandleLockResource == LockResource(CoreLockBodies)
HandleRenewLock == RenewLock(CoreRenewBodies)
HandleUnlockResource == UnlockResource(Resources)
HandlePublishMessage == PublishMessage(CorePublishBodies)
HandleFetchMessages == FetchMessages({"codex"})
HandleAckMessage == AckMessage(CoreAckBodies)
HandleCreateContract == CreateContract(CoreCreatePayloads)
HandleGetContract == GetContract(RequestedContractIds)
HandleUpdateContract == UpdateContractStatus(RequestedContractIds, CoreUpdatePayloads)

Request ==
  \/ HandleLockResource
  \/ HandleRenewLock
  \/ HandleUnlockResource
  \/ HandlePublishMessage
  \/ HandleFetchMessages
  \/ HandleAckMessage
  \/ HandleCreateContract
  \/ HandleGetContract
  \/ HandleUpdateContract

CoreClients == {1}

\* the whole facade: every route, the clock and a subscriber
Next ==
  \/ Tick
  \/ Subscribe(CoreClients)
  \/ CloseStream
  \/ Len(eventLog) < MaxEvents /\ HandleLockResource
  \/ Len(eventLog) < MaxEvents /\ HandleRenewLock
  \/ Len(eventLog) < MaxEvents /\ HandleUnlockResource
  \/ Len(eventLog) < MaxEvents /\ HandlePublishMessage
  \/ HandleFetchMessages
  \/ Len(eventLog) < MaxEvents /\ HandleAckMessage
  \/ Len(eventLog) < MaxEvents /\ HandleCreateContract
  \/ HandleGetContract
  \/ Len(eventLog) < MaxEvents /\ HandleUpdateContract

Spec == Init /\ [][Next]_vars

(***************************************************************************)
(* Claims.                                                                 *)
(***************************************************************************)
ValidLockBodies == [resource : Resources, holder : Holders, ttl : TTLs]

\* C1: while a resource's lock has been granted (201, or renewed 200), has not
\* been released by a successful unlock, and the clock has not passed the
\* expiresAt last granted, every lock_resource on it, by any holder, gets 409.
LockMutualExclusion ==
  [][\A body \in ValidLockBodies :
       (/\ LockResource({body})
        /\ granted[body.resource] # None
        /\ clock <= granted[body.resource][1])
       => /\ resp'.status = 409
          /\ hasLock(locks', body.resource)
          /\ getLock(locks', body.resource) = getLock(locks, body.resource)]_vars

\* C1 witness: a lock_resource was refused on a resource that is held, unexpired
LockRefusedWhileHeld ==
  /\ resp.op = "lock_resource"
  /\ resp.status = 409
  /\ \E r \in Resources :
       /\ granted[r] # None
       /\ clock <= granted[r][1]
       /\ hasLock(locks, r)
       /\ getLock(locks, r).createdAt > 0

\* C2: no fetch_messages returns a message that an ack_message call naming its
\* id has acknowledged, whatever publishes, fetches and acks came in between.
MailboxExclusion ==
  \A recipient \in Recipients :
    \A k \in 1..Len(pendingMessages(recipient)) :
      pendingMessages(recipient)[k].id \notin ackedEver

\* C2 witness: a fetch answered with a pending message for a recipient that
\* also has an acknowledged one
FetchAfterAck ==
  /\ resp.op = "fetch_messages"
  /\ Len(resp.body.messages) > 0
  /\ \E i \in 1..Len(messages) :
       /\ messages[i].id \in ackedEver
       /\ messages[i].recipient = resp.body.messages[1].recipient
       /\ messages[i].id \notin {resp.body.messages[k].id :
                                    k \in 1..Len(resp.body.messages)}

\* the history entries an update call must add: one when it changes the status
\* to a different value or carries a non-empty note, none otherwise
ExpectedHistoryGrowth(contract, update) ==
  IF \/ update.status # None /\ update.status[1] # contract.status
     \/ update.note # None /\ update.note[1] # ""
  THEN 1 ELSE 0

\* C5: no step shortens a contract's history, and a successful update call adds
\* exactly one entry if it changes the status or supplies a non-empty note, and
\* none otherwise.
HistoryMonotonicity ==
  [][\A i \in 1..Len(contracts) :
       /\ i <= Len(contracts')
       /\ contracts'[i].id = contracts[i].id
       /\ Len(contracts'[i].history) >= Len(contracts[i].history)
       /\ \A update \in ValidUpdatePayloads :
            UpdateContractStatus({contracts[i].id}, {update})
            => Len(contracts'[i].history) =
                 Len(contracts[i].history) + ExpectedHistoryGrowth(contracts[i], update)
     ]_vars

\* C5 witness: an update has added an entry, and a later update answered 200
\* on a contract whose status it repeats
HistoryGrewThenUpdated ==
  /\ resp.op = "update_contract"
  /\ resp.status = 200
  /\ \E i \in 1..Len(contracts) :
       /\ Len(contracts[i].history) = 2
       /\ contracts[i].history[2].note = None
       /\ contracts[i].owner = Some("cursor")

\* C6 as stated: once relatedMessageId has any value, no step changes it
RelatedMessageSetOnce ==
  [][\A i \in 1..Len(contracts) :
       contracts[i].relatedMessageId # None
       => /\ i <= Len(contracts')
          /\ contracts'[i].relatedMessageId = contracts[i].relatedMessageId]_vars

\* C6: once relatedMessageId has a non-empty value, no publish that
\* refers to the contract and no update changes it (first writer wins).
RelatedMessageFirstWriterWins ==
  [][\A i \in 1..Len(contracts) :
       Truthy(contracts[i].relatedMessageId)
       => /\ i <= Len(contracts')
          /\ contracts'[i].relatedMessageId = contracts[i].relatedMessageId]_vars

\* C6 witness: two published messages refer to one contract, which is linked
\* to the first of them
SecondLinkIgnored ==
  \E i \in 1..Len(contracts) :
    /\ Len(messages) >= 2
    /\ messages[1].contractId = Some(contracts[i].id)
    /\ messages[2].contractId = Some(contracts[i].id)
    /\ contracts[i].relatedMessageId = Some(messages[1].id)

\* C10 as stated: a successful inline-contract publish answers with messageId
\* and contractId, the new contract is linked to the message and the message to
\* the contract, and the contract has one history entry with its initial status
InlinePublishLinksBoth ==
  [][\A body \in InlineBodies :
       (PublishMessage({body}) /\ resp'.status = 201)
       => LET message == messages'[Len(messages')]
              contract == contracts'[Len(contracts')]
              initial == IF body.contract[1].status = None THEN "proposed"
                         ELSE body.contract[1].status[1]
          IN  /\ resp'.body.messageId = message.id
              /\ resp'.body.contractId = Some(contract.id)
              /\ message.contractId = Some(contract.id)
              /\ contract.status = initial
              /\ Len(contract.history) = 1
              /\ contract.history[1].status = initial
              /\ contract.relatedMessageId = Some(message.id)]_vars

\* what a client that connected after n published events must have received:
\* the last min(n, limit) of those n events in publish order, then every event
\* published since
ExpectedStream(n) ==
  LET first == IF n > EVENT_HISTORY_LIMIT THEN n - EVENT_HISTORY_LIMIT + 1 ELSE 1
  IN  SubSeq(eventLog, first, Len(eventLog))

\* C3 as stated: a subscriber that connects after more than 100 events were
\* published receives exactly the 100 most recent, oldest first, before any
\* live event
ReplayBoundedness ==
  \A c \in Clients :
    (streams[c].state # "idle" /\ streams[c].connectedAt > EVENT_HISTORY_LIMIT)
    => streams[c].out = ExpectedStream(streams[c].connectedAt)

\* C4 as stated: a subscriber that connects after N <= 100 published events
\* receives exactly those N, in publish order, before any live event
ReplayCompleteness ==
  \A c \in Clients :
    (streams[c].state # "idle" /\ streams[c].connectedAt <= EVENT_HISTORY_LIMIT)
    => streams[c].out = ExpectedStream(streams[c].connectedAt)

\* C9 as stated: the contract.created, contract.message_linked and
\* message.published events of one inline-contract publish are appended to
\* the published events together and in this order, and whatever a subscriber
\* has received of them, live or as replay, is in this order and adjacent
InlinePublishEventOrder ==
  /\ \A k \in 1..Len(eventLog) :
       eventLog[k].type = "contract.created"
       => /\ k + 2 <= Len(eventLog)
          /\ eventLog[k + 1].type = "contract.message_linked"
          /\ eventLog[k + 1].data.contractId = eventLog[k].data.contract.id
          /\ eventLog[k + 2].type = "message.published"
          /\ eventLog[k + 2].data.messageId = eventLog[k + 1].data.messageId
  /\ \A c \in Clients :
       LET out == streams[c].out IN
       \A j \in 1..Len(out) :
         out[j].type = "contract.message_linked"
         => /\ \A i \in 1..Len(out) :
                 (/\ out[i].type = "contract.created"
                  /\ out[i].data.contract.id = out[j].data.contractId)
                 => i + 1 = j
            /\ \A i \in 1..Len(out) :
                 (/\ out[i].type = "message.published"
                  /\ out[i].data.messageId = out[j].data.messageId)
                 => i = j + 1

FailureStatuses == {400, 404, 409, 410}
LockOperations == {"lock_resource", "renew_lock", "unlock_resource"}

\* the stores, the event history and every subscriber's stream as before the call
StoresUntouched ==
  UNCHANGED <<locks, messages, messagesById, messagesByRecipient, contracts,
              contractIdSeq, persistPending, persistTimer, eventHistory,
              eventHistoryIndex, eventLog, streams, eventClients>>

\* the only difference is the expiry sweep: expired locks are gone, one
\* lock.expired event per removed lock was emitted, nothing else moved
OnlyExpiredLocksSwept ==
  LET kept(l) == \E j \in 1..Len(locks') : locks'[j] = l
      removed == SelectSeq(locks, LAMBDA l : ~kept(l))
      emitted == SubSeq(eventLog', Len(eventLog) + 1, Len(eventLog'))
  IN  /\ locks' = SelectSeq(locks, kept)
      /\ \A i \in 1..Len(removed) : isLockExpired(removed[i], clock')
      /\ Len(eventLog') >= Len(eventLog)
      /\ SubSeq(eventLog', 1, Len(eventLog)) = eventLog
      /\ Len(emitted) = Len(removed)
      /\ \A k \in 1..Len(emitted) : emitted[k].type = "lock.expired"
      /\ \A i \in 1..Len(removed) :
            \E k \in 1..Len(emitted) :
              emitted[k].data = [resource |-> removed[i].resource,
                                 holder |-> removed[i].holder]
      /\ \A c \in Clients :
            streams'[c] = IF c \in eventClients
                          THEN [streams[c] EXCEPT !.out = @ \o emitted]
                          ELSE streams[c]
      /\ UNCHANGED <<messages, messagesById, messagesByRecipient, contracts,
                     contractIdSeq, persistPending, persistTimer, eventClients>>

\* C7 as stated: whenever an operation returns a failure response (400, 404,
\* 409 or 410), the message store, the lock registry, the contract store and
\* the event history are as before the call and no event has been emitted.
FailureLeavesEverythingUnchanged ==
  [][(Request /\ resp'.status \in FailureStatuses) => StoresUntouched]_vars

\* C7: whenever an operation returns a failure response (400, 404, 409 or
\* 410), the message store and the contract store are as before the call; a
\* lock operation that fails with 404, 409 or 410 has still run the expiry
\* sweep, so the lock registry differs at most by the removal of expired locks
\* and exactly one lock.expired event per removed lock has been emitted, and
\* nothing else; every other failing operation changes and emits nothing.
FailureLeavesOnlyTheSweep ==
  [][(Request /\ resp'.status \in FailureStatuses)
       => IF resp'.op \in LockOperations /\ resp'.status # 400
          THEN OnlyExpiredLocksSwept
          ELSE StoresUntouched]_vars

\* C7 witness: a lock operation failed and its sweep removed an expired lock
FailedAfterSweep ==
  /\ resp.op \in LockOperations
  /\ resp.status \in {404, 409, 410}
  /\ eventLog # <<>>
  /\ eventLog[Len(eventLog)].type = "lock.expired"
  /\ eventLog[Len(eventLog)].timestamp = clock
  /\ ~hasLock(locks, eventLog[Len(eventLog)].data.resource)

\* C8: a request that fails schema validation (400) touches no store: no
\* message, contract or lock is created, changed or removed, no expiry sweep
\* runs, no persistence write is scheduled and no event is emitted.
ValidationFailureTouchesNothing ==
  [][(Request /\ resp'.status = 400) => /\ StoresUntouched
                                         /\ UNCHANGED clock]_vars

\* C8 witness: a lock request was refused with 400 while an expired lock was
\* waiting to be swept, and it is still in the registry
RefusedWithoutSweep ==
  /\ resp.op \in {"lock_resource", "renew_lock"}
  /\ resp.status = 400
  /\ \E i \in 1..Len(locks) : isLockExpired(locks[i], clock)

\* the events one step has published
EmittedByStep == SubSeq(eventLog', Len(eventLog) + 1, Len(eventLog'))

\* C11: a lock_resource(r, b, ttl) called after the clock has passed the
\* expiresAt of an existing lock on r held by a answers 201, and the events
\* contain lock.expired for (r, a) before lock.created for (r, b).
ExpiredLockSweptBeforeGrant ==
  [][\A body \in ValidLockBodies :
       (/\ LockResource({body})
        /\ hasLock(locks, body.resource)
        /\ clock > getLockExpiryDate(getLock(locks, body.resource)))
       => LET old == getLock(locks, body.resource)
              emitted == EmittedByStep
          IN  /\ resp'.status = 201
              /\ \E i, j \in 1..Len(emitted) :
                    /\ i < j
                    /\ emitted[i].type = "lock.expired"
                    /\ emitted[i].data = [resource |-> body.resource,
                                          holder |-> old.holder]
                    /\ emitted[j].type = "lock.created"
                    /\ emitted[j].data.resource = body.resource
                    /\ emitted[j].data.holder = body.holder]_vars

\* C11 witness: holder b was granted a resource right after the expired lock
\* of holder a on it was announced
GrantedAfterExpiry ==
  /\ resp.op = "lock_resource"
  /\ resp.status = 201
  /\ Len(eventLog) >= 3
  /\ LET n == Len(eventLog) IN
       /\ eventLog[n - 1].type = "lock.expired"
       /\ eventLog[n].type = "lock.created"
       /\ eventLog[n - 1].data.resource = eventLog[n].data.resource
       /\ eventLog[n - 1].data.holder = "a"
       /\ eventLog[n].data.holder = "b"

ValidRenewBodies == [resource : Resources, ttl : TTLs]

\* what the sweep of a validated lock operation on resource r leaves: no lock
\* that had expired when the call read the clock, every unexpired lock of
\* another resource as it was, and one lock.expired event with resource and
\* holder for each lock that was removed as expired
SweptFirst(r) ==
  LET emitted == EmittedByStep
      expiredEvents == {k \in 1..Len(emitted) : emitted[k].type = "lock.expired"}
      wasExpired(l) == clock > getLockExpiryDate(l)
  IN  /\ \A j \in 1..Len(locks') : ~(getLockExpiryDate(locks'[j]) < clock)
      /\ \A i \in 1..Len(locks) :
            wasExpired(locks[i])
            => /\ \A j \in 1..Len(locks') : locks'[j] # locks[i]
               /\ Cardinality({k \in expiredEvents :
                     emitted[k].data = [resource |-> locks[i].resource,
                                        holder |-> locks[i].holder]}) = 1
      /\ \A i \in 1..Len(locks) :
            (~wasExpired(locks[i]) /\ locks[i].resource # r)
            => \E j \in 1..Len(locks') : locks'[j] = locks[i]
      /\ \A k \in expiredEvents :
            \E i \in 1..Len(locks) :
              /\ emitted[k].data = [resource |-> locks[i].resource,
                                    holder |-> locks[i].holder]
              /\ emitted[k].timestamp > getLockExpiryDate(locks[i])

\* C12: every lock_resource, renew_lock and unlock_resource call that passes
\* validation first sweeps the whole registry: afterwards no lock whose
\* expiresAt is before the call's clock value remains, only expired locks were
\* swept, and exactly one lock.expired event carrying resource and holder was
\* emitted per removed lock.
EveryLockOperationSweeps ==
  [][/\ \A body \in ValidLockBodies :
          LockResource({body}) => SweptFirst(body.resource)
     /\ \A body \in ValidRenewBodies :
          RenewLock({body}) => SweptFirst(body.resource)
     /\ \A r \in Resources :
          UnlockResource({r}) => SweptFirst(r)]_vars

\* C12 witness: one sweep of a failed unlock removed two expired locks and
\* announced both
TwoLocksSweptAtOnce ==
  /\ resp.op = "unlock_resource"
  /\ resp.status = 404
  /\ locks = <<>>
  /\ Len(eventLog) >= 4
  /\ LET n == Len(eventLog) IN
       /\ eventLog[n - 1].type = "lock.expired"
       /\ eventLog[n].type = "lock.expired"
       /\ eventLog[n - 1].timestamp = eventLog[n].timestamp
       /\ eventLog[n - 1].data.resource # eventLog[n].data.resource

\* C13 as stated: renew_lock on a resource whose lock is in the registry but
\* past its expiresAt answers 410, and renew_lock on a resource that has no
\* lock answers 404
RenewTellsExpiredFromMissing ==
  [][\A body \in ValidRenewBodies :
       RenewLock({body})
       => /\ (/\ hasLock(locks, body.resource)
               /\ clock > getLockExpiryDate(getLock(locks, body.resource)))
              => resp'.status = 410
          /\ ~hasLock(locks, body.resource) => resp'.status = 404]_vars

\* no timer is armed and no write is in flight: persistence has come to rest
PersistenceAtRest ==
  /\ persistTimer \notin {"armed", "retry"}
  /\ strayTimers = [debounce |-> 0, retry |-> 0]
  /\ writes = <<>>

DiskHoldsStore ==
  disk = [state |-> "written", contracts |-> contractsSnapshot(contracts)]

\* C14 as stated: every contract mutation reaches disk: whenever the timers
\* have fired and the writes have settled after the last mutation, the file
\* equals the serialization of the entire in-memory contract set
MutationsReachDisk ==
  (PersistenceAtRest /\ contracts # <<>>) => DiskHoldsStore

\* C15 as stated: an explicit flush writes any pending contract snapshot
\* before it completes: afterwards no write is pending and the file equals
\* the in-memory contract set
FlushLeavesNothingPending ==
  [][(FlushContractPersistence /\ contracts # <<>>)
       => /\ ~persistPending'
          /\ disk' = [state |-> "written",
                      contracts |-> contractsSnapshot(contracts')]]_vars

\* C16 as stated: a failed write is not surfaced to any caller, leaves the
\* in-memory contract set unchanged, stays pending and is attempted again by
\* a timer without a further mutation; and once the timers have fired and
\* the writes have settled, the snapshot has reached disk
FailedWriteIsRetried ==
  /\ [][WriteFails => /\ resp' = resp
                      /\ contracts' = contracts
                      /\ persistPending'
                      /\ persistTimer' = "retry"]_vars
  /\ []((PersistenceAtRest /\ writeFailed) => DiskHoldsStore)

\* C17 as stated: whether or not a write to one subscriber throws, every
\* event a publish emits is written to every other subscriber, is recorded
\* in the replay buffer, and the publish completes with its success response
SinkFailureIsIsolated ==
  [][PublishMessage(SinkBodies)
       => /\ \A c \in eventClients :
               streams[c].state = "open"
               => streams'[c].out = streams[c].out \o EmittedByStep
          /\ eventHistory' = eventHistory \o EmittedByStep
          /\ resp'.status = 201]_vars

\* what a client has been sent after its replay
LivePart(c) ==
  LET replayed == IF streams[c].connectedAt < EVENT_HISTORY_LIMIT
                  THEN streams[c].connectedAt ELSE EVENT_HISTORY_LIMIT
  IN  SubSeq(streams[c].out, replayed + 1, Len(streams[c].out))

\* C18 as stated: every subscriber has received, after its replay, each event
\* published since it subscribed exactly once and in publish order, so all
\* subscribers observe the same order
LiveDeliveryInOrder ==
  \A c \in Clients :
    streams[c].state = "open"
    => LivePart(c) = SubSeq(eventLog, streams[c].connectedAt + 1, Len(eventLog))

\* C19 as stated: a subscriber that closes its stream leaves the registry and
\* is written to no more, and from then on the remaining subscribers are
\* still sent every event
ClosedSubscriberIsDropped ==
  [][/\ \A c \in Clients :
          streams'[c].state = "closed" => c \notin eventClients'
     /\ \A c \in Clients :
          streams[c].state = "closed" => streams'[c] = streams[c]
     /\ \A c \in Clients :
          (/\ \E d \in Clients : streams[d].state = "closed"
           /\ streams[c].state = "open"
           /\ streams'[c].state = "open")
          => streams'[c].out = streams[c].out \o EmittedByStep]_vars

\* the messages an ack_message step turns from unacknowledged to acknowledged
NewlyAcknowledged ==
  {i \in 1..Len(messages) : ~messages[i].acknowledged /\ messages'[i].acknowledged}

\* C20: ack_message answers 200 with the number of messages it newly
\* acknowledged; these are the messages its ids name that were not
\* acknowledged before, each counted once however often it is named; unknown
\* and already acknowledged ids change nothing, and exactly one
\* message.acknowledged event is emitted per counted message and none else
AckCountsNewlyAcknowledged ==
  [][\A body \in AckBodies :
       (body.isArray /\ AckMessage({body}))
       => /\ resp'.status = 200
          /\ NewlyAcknowledged =
               {i \in 1..Len(messages) :
                  /\ ~messages[i].acknowledged
                  /\ \E k \in 1..Len(body.ids) : body.ids[k] = messages[i].id}
          /\ resp'.body.acknowledgedCount = Cardinality(NewlyAcknowledged)
          /\ Len(EmittedByStep) = Cardinality(NewlyAcknowledged)
          /\ \A i \in NewlyAcknowledged :
               Cardinality({k \in 1..Len(EmittedByStep) :
                              EmittedByStep[k].data.messageId = messages[i].id}) = 1
          /\ \A k \in 1..Len(EmittedByStep) :
               /\ EmittedByStep[k].type = "message.acknowledged"
               /\ \E i \in NewlyAcknowledged :
                    EmittedByStep[k].data = [messageId |-> messages[i].id,
                                             recipient |-> messages[i].recipient]
          /\ \A i \in 1..Len(messages) :
               i \notin NewlyAcknowledged => messages'[i] = messages[i]
          /\ Len(messages') = Len(messages)]_vars

\* an ack_message that named one unacknowledged message twice and counted it once
RepeatedIdCountedOnce ==
  /\ resp.op = "ack_message"
  /\ resp.status = 200
  /\ resp.body.acknowledgedCount = 1
  /\ ackSkipped = [unknown |-> 0, acknowledged |-> 1]
  /\ Cardinality({i \in 1..Len(messages) : messages[i].acknowledged}) = 1

\* C21: fetch_messages(recipient) answers exactly the stored messages that
\* are addressed to the recipient and not acknowledged, in publish order
FetchReturnsPending ==
  [][\A recipient \in Recipients :
       FetchMessages({recipient})
       => /\ resp'.status = 200
          /\ resp'.body.messages =
               SelectSeq(messages, LAMBDA m : m.recipient = recipient /\ ~m.acknowledged)]_vars

\* a fetch answered with two messages while a third is addressed to another
\* recipient
FetchedTwoOfThree ==
  /\ resp.op = "fetch_messages"
  /\ Len(resp.body.messages) = 2
  /\ \E i \in 1..Len(messages) :
       messages[i].recipient # resp.body.messages[1].recipient

\* C22: a publish_message whose contractId names no existing contract is
\* answered 404, stores no message in the list or in either index, changes
\* no contract and nothing of its persistence, and emits no event
MissingContractRefusesPublish ==
  [][\A body \in LinkBodies :
       (body.contractId[1] \notin ContractIds /\ PublishMessage({body}))
       => /\ resp'.status = 404
          /\ messages' = messages
          /\ messagesById' = messagesById
          /\ messagesByRecipient' = messagesByRecipient
          /\ contracts' = contracts
          /\ persistPending' = persistPending
          /\ persistTimer' = persistTimer
          /\ eventLog' = eventLog
          /\ eventHistory' = eventHistory
          /\ streams' = streams]_vars

\* a publish refused with 404 while a contract with another id is stored
PublishRefusedForMissingContract ==
  /\ resp.op = "publish_message"
  /\ resp.status = 404
  /\ Len(contracts) > 0

\* C23 as stated: a publish_message that names by contractId a contract whose
\* relatedMessageId is already set leaves the contract as it is and emits no
\* contract.message_linked event
RelinkEmitsNoEvent ==
  [][\A body \in LinkBodies :
       (/\ hasContract(contracts, body.contractId[1])
        /\ Truthy(getContract(contracts, body.contractId[1]).relatedMessageId)
        /\ PublishMessage({body}))
       => /\ contracts' = contracts
          /\ \A k \in 1..Len(EmittedByStep) :
               EmittedByStep[k].type # "contract.message_linked"]_vars

\* C24: unlock_resource(r) answers 200 and removes the lock whenever r has an
\* unexpired lock, whoever holds it; it answers 404 when r has no lock or an
\* expired one; and once r has no lock (as after a successful unlock), a
\* valid lock_resource(r) by any holder is granted
UnlockReleasesForAnyone ==
  [][/\ \A r \in Resources :
          UnlockResource({r})
          => /\ ~hasLock(locks', r)
             /\ resp'.status =
                  IF hasLock(locks, r) /\ ~isLockExpired(getLock(locks, r), clock)
                  THEN 200 ELSE 404
     /\ \A body \in ValidLockBodies :
          (~hasLock(locks, body.resource) /\ LockResource({body}))
          => /\ resp'.status = 201
             /\ hasLock(locks', body.resource)
             /\ getLock(locks', body.resource).holder = body.holder]_vars

\* a lock of one holder was released and the resource then granted to another
ReleasedThenGrantedToAnother ==
  /\ Len(eventLog) >= 2
  /\ eventLog[Len(eventLog) - 1].type = "lock.released"
  /\ eventLog[Len(eventLog)].type = "lock.created"
  /\ eventLog[Len(eventLog)].data.resource = eventLog[Len(eventLog) - 1].data.resource
  /\ eventLog[Len(eventLog)].data.holder # eventLog[Len(eventLog) - 1].data.holder
  /\ resp.op = "lock_resource"
  /\ resp.status = 201

\* the lock.created, lock.renewed and lock.released events of a step
LifecycleEvents ==
  SelectSeq(EmittedByStep,
            LAMBDA e : e.type \in {"lock.created", "lock.renewed", "lock.released"})

\* exactly one lifecycle event, of the given type, for the resource and holder
OneLifecycleEvent(type, resource, holder) ==
  /\ Len(LifecycleEvents) = 1
  /\ LifecycleEvents[1].type = type
  /\ LifecycleEvents[1].data.resource = resource
  /\ LifecycleEvents[1].data.holder = holder

\* C25: a successful lock_resource, renew_lock or unlock_resource emits
\* exactly one lock.created, lock.renewed or lock.released event with the
\* resource and the holder recorded in the lock (for renew and unlock the
\* holder that acquired it), and a failed one emits no event of these types
LockLifecycleEvents ==
  [][/\ \A body \in LockBodies :
          LockResource({body})
          => IF resp'.status = 201
             THEN OneLifecycleEvent("lock.created", body.resource, body.holder)
             ELSE LifecycleEvents = <<>>
     /\ \A body \in RenewBodies :
          RenewLock({body})
          => IF resp'.status = 200
             THEN /\ hasLock(locks, body.resource)
                  /\ OneLifecycleEvent("lock.renewed", body.resource,
                                       getLock(locks, body.resource).holder)
             ELSE LifecycleEvents = <<>>
     /\ \A r \in Resources :
          UnlockResource({r})
          => IF resp'.status = 200
             THEN /\ hasLock(locks, r)
                  /\ OneLifecycleEvent("lock.released", r, getLock(locks, r).holder)
             ELSE LifecycleEvents = <<>>]_vars

\* a lock was created, renewed and released, and the three events name the
\* same resource and holder
LockLifecycleAnnounced ==
  /\ Len(eventLog) >= 3
  /\ LET n == Len(eventLog) IN
       /\ eventLog[n - 2].type = "lock.created"
       /\ eventLog[n - 1].type = "lock.renewed"
       /\ eventLog[n].type = "lock.released"
       /\ eventLog[n - 1].data.resource = eventLog[n - 2].data.resource
       /\ eventLog[n].data.resource = eventLog[n - 2].data.resource
       /\ eventLog[n - 1].data.holder = eventLog[n - 2].data.holder
       /\ eventLog[n].data.holder = eventLog[n - 2].data.holder

\* C26: a startup that finds a written file restores exactly the contracts in
\* it (the same ids, in file order, and serializing them again gives the file
\* back), and when the file holds the serialization of the store, every
\* loaded contract equals the stored one in every field
LoadRestoresWhatWasWritten ==
  [][Startup
       => /\ disk.state = "written"
               => /\ Len(contracts') = Len(disk.contracts)
                  /\ \A i \in 1..Len(contracts') : contracts'[i].id = disk.contracts[i].id
                  /\ contractsSnapshot(contracts') = disk.contracts
          /\ DiskHoldsStore => contracts' = contracts]_vars

\* a process that has just started holds a loaded contract with a due date, a
\* cleared owner, merged metadata and two history entries
LoadedRichContract ==
  /\ resp.op = "none"
  /\ \E i \in 1..Len(contracts) :
       /\ contracts[i].dueAt # None
       /\ contracts[i].owner = None
       /\ contracts[i].metadata # None
       /\ Len(contracts[i].history) = 2
       /\ contracts[i].updatedAt > contracts[i].createdAt

\* C27 as stated: the mutations of a burst start no write and leave one
\* armed timer, and when that timer fires at the end of the burst exactly one
\* write is started, with the contract set as the last mutation left it
BurstWritesOnce ==
  [][/\ (contracts' # contracts /\ persistTimer' = "armed")
          => writes' = writes /\ strayTimers' = strayTimers
     /\ PersistTimerFires
          => writes' = Append(writes, contractsSnapshot(contracts))]_vars

\* C28 as stated: once finalize() has resolved, the session file holds the
\* final meta and every turn recorded
FinalizedSessionOnDisk ==
  recorder.finalize = "resolved"
  => recorder.file = Some(recorderPayload(recorder))

\* C29: a successful renew_lock(r, ttl) leaves a lock on r with that ttl,
\* createdAt at the time of the call and the resource and holder it had, and
\* announces and answers expiresAt = now + ttl, whatever the old expiresAt was
RenewRestartsTheLease ==
  [][\A body \in ValidRenewBodies :
       (RenewLock({body}) /\ resp'.status = 200)
       => /\ hasLock(locks, body.resource)
          /\ hasLock(locks', body.resource)
          /\ LET old == getLock(locks, body.resource)
                 new == getLock(locks', body.resource)
                 expiresAt == clock' + body.ttl * MsPerSecond
             IN  /\ new = [resource |-> old.resource, holder |-> old.holder,
                           ttl |-> body.ttl, createdAt |-> clock']
                 /\ resp'.body.lock = [resource |-> old.resource, holder |-> old.holder,
                                       ttl |-> body.ttl, expiresAt |-> expiresAt]
                 /\ EmittedByStep[Len(EmittedByStep)].data = resp'.body.lock
                 /\ granted'[body.resource] = Some(expiresAt)]_vars

\* a renew with a smaller ttl has just moved expiresAt to an earlier time
RenewShortenedTheLock ==
  /\ resp.op = "renew_lock"
  /\ resp.status = 200
  /\ Len(eventLog) >= 2
  /\ eventLog[Len(eventLog) - 1].type = "lock.created"
  /\ eventLog[Len(eventLog)].type = "lock.renewed"
  /\ eventLog[Len(eventLog)].data.resource = eventLog[Len(eventLog) - 1].data.resource
  /\ eventLog[Len(eventLog)].data.expiresAt < eventLog[Len(eventLog) - 1].data.expiresAt

\* the locks whose expiresAt is exactly the time the handler reads
AtDeadline == {i \in 1..Len(locks) : getLockExpiryDate(locks[i]) = clock}

\* every lock at its deadline, other than a released one, is still registered
DeadlineLocksKept(released) ==
  \A i \in AtDeadline :
    locks[i].resource \notin released
    => /\ hasLock(locks', locks[i].resource)
       /\ getLock(locks', locks[i].resource).holder = locks[i].holder

\* the lock of resource r is at its deadline and the handler reads no later time
HeldAtDeadline(r) ==
  /\ hasLock(locks, r)
  /\ getLockExpiryDate(getLock(locks, r)) = clock
  /\ clock' = clock

\* C30: at the instant now = createdAt + ttl a lock is still held: no lock
\* operation's sweep removes it, lock_resource on its resource answers 409,
\* and a renew_lock or unlock_resource handled at that instant succeeds
HeldUntilStrictlyAfterDeadline ==
  [][/\ \A body \in ValidLockBodies :
          LockResource({body})
          => /\ DeadlineLocksKept({})
             /\ HeldAtDeadline(body.resource) => resp'.status = 409
     /\ \A body \in ValidRenewBodies :
          RenewLock({body})
          => /\ DeadlineLocksKept(IF clock' = clock THEN {} ELSE {body.resource})
             /\ HeldAtDeadline(body.resource) => resp'.status = 200
     /\ \A r \in Resources :
          UnlockResource({r})
          => /\ DeadlineLocksKept({r})
             /\ HeldAtDeadline(r) => resp'.status = 200]_vars

\* a lock_resource refused at the very instant the held lock reaches its
\* expiresAt
RefusedAtDeadline ==
  /\ resp.op = "lock_resource"
  /\ resp.status = 409
  /\ \E i \in 1..Len(locks) : getLockExpiryDate(locks[i]) = clock

\* C31: no step deletes or rewrites a message: every stored message stays at
\* its place under its id, in the id index and in its recipient's list, with
\* its recipient, sender, content, contractId and timestamp, and its
\* acknowledged flag never goes back from true to false
MessagesAreNeverRewritten ==
  [][/\ Len(messages') >= Len(messages)
     /\ \A i \in 1..Len(messages) :
          /\ messages'[i] = [messages[i] EXCEPT !.acknowledged = messages'[i].acknowledged]
          /\ messages[i].acknowledged => messages'[i].acknowledged
          /\ messages[i].id \in DOMAIN messagesById'
          /\ messagesById'[messages[i].id] = i
          /\ \E k \in 1..Len(messagesByRecipient'[messages[i].recipient]) :
               messagesByRecipient'[messages[i].recipient][k] = i
     /\ \A i, j \in 1..Len(messages') :
          messages'[i].id = messages'[j].id => i = j]_vars

\* three messages are stored, one acknowledged and two not, after an ack
StoredAfterAck ==
  /\ resp.op = "ack_message"
  /\ Len(messages) = 3
  /\ Cardinality({i \in 1..Len(messages) : messages[i].acknowledged}) = 1

\* C32: a contract enters the store with a history of exactly one entry, whose
\* actor is the initiator, whose status is the contract's status at creation and
\* whose note is "Contract created"; every later step keeps the entries already
\* in a history, in place and unchanged, so that entry stays the first one.
HistoryIsAppendOnly ==
  [][/\ \A i \in 1..Len(contracts) :
          /\ i <= Len(contracts')
          /\ contracts'[i].id = contracts[i].id
          /\ Len(contracts'[i].history) >= Len(contracts[i].history)
          /\ SubSeq(contracts'[i].history, 1, Len(contracts[i].history))
               = contracts[i].history
     /\ \A i \in (Len(contracts) + 1)..Len(contracts') :
          /\ Len(contracts'[i].history) = 1
          /\ contracts'[i].history[1].status = contracts'[i].status
     /\ \A i \in 1..Len(contracts') :
          /\ Len(contracts'[i].history) >= 1
          /\ contracts'[i].history[1].actor = contracts'[i].initiator
          /\ contracts'[i].history[1].note = Some("Contract created")]_vars

\* C32 witness: two updates by another actor have extended a history whose
\* first entry still records the creation
HistoryGrewPastCreation ==
  /\ resp.op = "update_contract"
  /\ \E i \in 1..Len(contracts) :
       /\ Len(contracts[i].history) = 3
       /\ contracts[i].history[1].status # contracts[i].status
       /\ contracts[i].history[3].actor # contracts[i].initiator

\* the buffer holds exactly the min(k, limit) events published last, k being
\* the number of events published since the buffer was last emptied
HoldsNewest(history, log, cleared) ==
  LET k == Len(log) - cleared
      kept == IF k < EVENT_HISTORY_LIMIT THEN k ELSE EVENT_HISTORY_LIMIT
  IN  /\ Len(history) = kept
      /\ {history[i] : i \in 1..Len(history)}
           = {log[j] : j \in (Len(log) - kept + 1)..Len(log)}

\* C33: after every step the replay buffer holds exactly the min(k, 100) most
\* recently published events, k counting the events published since the last
\* clear; and a step that publishes one event on a full buffer changes exactly
\* one slot, the one that held the oldest buffered event, to the new event.
ReplayBufferHoldsNewest ==
  [][/\ HoldsNewest(eventHistory', eventLog', clearedAt')
     /\ (/\ Len(eventHistory) = EVENT_HISTORY_LIMIT
         /\ Len(eventLog') = Len(eventLog) + 1)
        => \E i \in 1..EVENT_HISTORY_LIMIT :
             /\ eventHistory[i] = eventLog[Len(eventLog) - EVENT_HISTORY_LIMIT + 1]
             /\ eventHistory' = [eventHistory EXCEPT ![i] = eventLog'[Len(eventLog')]]
    ]_vars

\* C33 witness: the buffer was emptied after it had wrapped, and has been
\* filled and overwritten again since
WrappedAgainAfterClear ==
  /\ clearedAt > EVENT_HISTORY_LIMIT
  /\ Len(eventLog) - clearedAt > EVENT_HISTORY_LIMIT
  /\ Len(eventHistory) = EVENT_HISTORY_LIMIT

\* C34 as stated: processTask returns success = true only when a turn handed
\* off to 'complete'; a run that used all of its turns without one returns
\* success = false.
SuccessMeansCompleted ==
  (orchestrator.state = "returned" /\ orchestrator.result[1].success)
    => orchestrator.completed

\* C35: in every state, every contract's status is the status recorded in the
\* last entry of its history.
StatusIsLastHistoryStatus ==
  \A i \in 1..Len(contracts) :
    /\ Len(contracts[i].history) >= 1
    /\ contracts[i].status
         = contracts[i].history[Len(contracts[i].history)].status

\* C35 witness: a status change has been recorded, and a later update that
\* only carried a note has added an entry with the same status
NoteRecordedAfterStatusChange ==
  /\ resp.op = "update_contract"
  /\ resp.status = 200
  /\ \E i \in 1..Len(contracts) :
       /\ Len(contracts[i].history) = 3
       /\ contracts[i].history[2].status # contracts[i].history[1].status
       /\ contracts[i].history[3].status = contracts[i].history[2].status
       /\ contracts[i].history[3].note = Some("Checked")

\* C36 as stated: whenever persistPending is false and no writeFile call is in
\* flight, the file equals the serialization of the contract set in memory
\* (once there is a contract to write).
CleanFlagMeansDiskIsCurrent ==
  (~persistPending /\ writes = <<>> /\ contracts # <<>>) => DiskHoldsStore

\* how many events of a type are in a sequence of events, in all or about one
\* resource
CountEvents(events, type) ==
  Cardinality({i \in 1..Len(events) : events[i].type = type})

CountEventsAbout(events, type, resource) ==
  Cardinality({i \in 1..Len(events) :
                 events[i].type = type /\ events[i].data.resource = resource})

Held(ls, resource) == IF hasLock(ls, resource) THEN 1 ELSE 0

\* C37: after every step the number of lock.created events ever emitted equals
\* the number of lock.released and lock.expired events ever emitted plus the
\* number of locks in the registry; and within every step, for every resource,
\* a lock that enters the registry comes with one lock.created event and a lock
\* that leaves it with exactly one lock.released or lock.expired event.
LockEventsBalance ==
  [][/\ CountEvents(eventLog', "lock.created")
          = CountEvents(eventLog', "lock.released")
              + CountEvents(eventLog', "lock.expired") + Len(locks')
     /\ \A r \in Resources :
          LET created == CountEventsAbout(EmittedByStep, "lock.created", r)
              gone == CountEventsAbout(EmittedByStep, "lock.released", r)
                        + CountEventsAbout(EmittedByStep, "lock.expired", r)
          IN  /\ created <= 1
              /\ gone <= 1
              /\ gone = IF hasLock(locks, r) /\ (created = 1 \/ ~hasLock(locks', r))
                        THEN 1 ELSE 0
              /\ Held(locks', r) - Held(locks, r) = created - gone]_vars

\* C37 witness: a lock expired and its resource was locked again, so two
\* lock.created and one lock.expired event stand against one lock held
RelockedAfterExpiry ==
  /\ CountEvents(eventLog, "lock.created") = 2
  /\ CountEvents(eventLog, "lock.expired") = 1
  /\ CountEvents(eventLog, "lock.released") = 0
  /\ Len(locks) = 1

\* C38: in every state, every stored message that carries a contractId names
\* a contract that is in the contract store.
MessageContractsExist ==
  \A i \in 1..Len(messages) :
    Truthy(messages[i].contractId)
      => hasContract(contracts, messages[i].contractId[1])

\* C38 witness: two stored messages name the one stored contract, which is
\* linked to the first of them
TwoMessagesNameTheContract ==
  /\ Len(messages) = 2
  /\ Len(contracts) = 1
  /\ messages[1].contractId = Some(contracts[1].id)
  /\ messages[2].contractId = Some(contracts[1].id)
  /\ contracts[1].relatedMessageId = Some(messages[1].id)

\* C39: an update of a stored contract that names any of the six statuses, by
\* any actor and from any current status, is answered 200 and leaves the
\* contract in the status it names.
AnyStatusFollowsAnyStatus ==
  [][\A id \in ContractIds, update \in LifecycleUpdatePayloads :
       UpdateContractStatus({id}, {update})
       => /\ resp'.status = 200
          /\ hasContract(contracts', id)
          /\ getContract(contracts', id).status = update.status[1]]_vars

\* C39 witness: a stranger has taken a completed contract back to proposed
CompletedWentBackToProposed ==
  /\ resp.op = "update_contract"
  /\ resp.status = 200
  /\ \E i \in 1..Len(contracts) :
       LET h == contracts[i].history IN
         /\ Len(h) = 3
         /\ h[2].status = "completed"
         /\ h[3].status = "proposed"
         /\ h[3].actor = "stranger"
         /\ contracts[i].status = "proposed"

====
